---- MODULE Spec2Model ----
(***************************************************************************)
(* Model of the resume builder: the sanitizer and escape helpers, the      *)
(* section renderers and document renderer of html_generator.py, template  *)
(* resolution, and the JSON save / load paths of resume_builder.py and     *)
(* web_app.py.                                                             *)
(*                                                                         *)
(* Python values are tagged records, because Python is dynamically typed   *)
(* and the code tests values for truthiness, key membership and type:      *)
(*   PyNone, PyStr(<<chars>>), PyList(<<values>>), PyDict(function).       *)
(* A Python str is a sequence of one-character strings.                    *)
(***************************************************************************)
EXTENDS Integers, Sequences, FiniteSets, TLC

\* text         the argument of a helper under test
\* resume_data  the document: ResumeBuilder.resume_data, or the body of a request
\* boxes        the item widgets of the four section boxes of the GTK window,
\*              each widget standing for the entry its Remove button is bound to
\* form         the texts of the header and contact entries of the GTK window
\* fs           what the file system answers for each candidate template path
\* json_file    the characters of the saved JSON file
\* result       the outcome of the last operation
\* op           the last operation
VARIABLES text, resume_data, boxes, form, fs, json_file, result, op

vars == <<text, resume_data, boxes, form, fs, json_file, result, op>>

(***************************************************************************)
(* Bounds of the model.                                                    *)
(***************************************************************************)
MaxTextLen == 3
SmallMaxLength == 2
MaxEntries == 3
MaxFieldLen == 8

(***************************************************************************)
(* Python values.                                                          *)
(***************************************************************************)
PyNone == [t |-> "none"]
PyStr(s) == [t |-> "str", s |-> s]
PyList(xs) == [t |-> "list", xs |-> xs]
PyDict(d) == [t |-> "dict", d |-> d]

IsStr(v) == v.t = "str"
IsList(v) == v.t = "list"
IsDict(v) == v.t = "dict"

\* Python truthiness: None, "", [] and {} are falsy.
Truthy(v) ==
    CASE v.t = "none" -> FALSE
      [] v.t = "str" -> v.s # <<>>
      [] v.t = "list" -> v.xs # <<>>
      [] v.t = "dict" -> DOMAIN v.d # {}

\* The outcome of a call: a returned value or a raised exception.
Ok(v) == [ok |-> TRUE, v |-> v]
Raise(e) == [ok |-> FALSE, exc |-> e]

(***************************************************************************)
(* Characters and strings.                                                 *)
(***************************************************************************)
Alphabet == {"<", ">", "&", "\"", "'", "a", " "}
Whitespace == {" ", "\n", "\t"}
HtmlSpecial == {"<", ">", "&", "\"", "'"}

\* All strings over S of length at most n.
StringsUpTo(S, n) == UNION {[1..k -> S] : k \in 0..n}

Min(a, b) == IF a < b THEN a ELSE b

\* s[:n]
Slice(s, n) == SubSeq(s, 1, Min(Len(s), n))

RECURSIVE lstrip(_)
lstrip(s) == IF s # <<>> /\ Head(s) \in Whitespace THEN lstrip(Tail(s)) ELSE s

RECURSIVE rstrip(_)
rstrip(s) ==
    IF s # <<>> /\ s[Len(s)] \in Whitespace THEN rstrip(SubSeq(s, 1, Len(s) - 1)) ELSE s

\* str.strip()
strip(s) == rstrip(lstrip(s))

\* str.replace(old, new) for a one-character old.
RECURSIVE replace_char(_, _, _)
replace_char(s, old, new) ==
    IF s = <<>> THEN <<>>
    ELSE (IF Head(s) = old THEN new ELSE <<Head(s)>>) \o replace_char(Tail(s), old, new)

\* html.escape(s, quote=True): five replace passes, the ampersand first.
html_escape(s) ==
    LET s1 == replace_char(s, "&", <<"&", "a", "m", "p", ";">>)
        s2 == replace_char(s1, "<", <<"&", "l", "t", ";">>)
        s3 == replace_char(s2, ">", <<"&", "g", "t", ";">>)
        s4 == replace_char(s3, "\"", <<"&", "q", "u", "o", "t", ";">>)
    IN  replace_char(s4, "'", <<"&", "#", "x", "2", "7", ";">>)

\* html.escape(s, quote=False): the quote characters are left alone.
html_escape_noquote(s) ==
    LET s1 == replace_char(s, "&", <<"&", "a", "m", "p", ";">>)
        s2 == replace_char(s1, "<", <<"&", "l", "t", ";">>)
    IN  replace_char(s2, ">", <<"&", "g", "t", ";">>)

\* str(text) for the values of the model (None and str).
py_str(v) == IF v.t = "str" THEN v.s ELSE <<"N", "o", "n", "e">>

sanitize_input_noquote(v, max_length) ==
    IF ~Truthy(v) THEN <<>>
    ELSE html_escape_noquote(strip(Slice(py_str(v), max_length)))

\* Trimming before truncating: the order sanitize_input does not use.
sanitize_input_strip_first(v, max_length) ==
    IF ~Truthy(v) THEN <<>>
    ELSE html_escape(Slice(strip(py_str(v)), max_length))

\* sanitize_input(text, max_length=10000), returning the str as a sequence.
sanitize_input(v, max_length) ==
    IF ~Truthy(v) THEN <<>>
    ELSE html_escape(strip(Slice(py_str(v), max_length)))

\* str(text) if text else "": the text without html.escape
escape_text_raw(v) == IF Truthy(v) THEN py_str(v) ELSE <<>>

\* escape_text(text)
escape_text(v) == IF Truthy(v) THEN html_escape(py_str(v)) ELSE <<>>

default_max_length == 10000

(***************************************************************************)
(* validate_date: datetime.strptime against each of DATE_FORMATS in turn.  *)
(* strptime matches the whole string, case-insensitively, a blank of the   *)
(* format against one or more white-space characters, %Y against four      *)
(* digits, and then builds the date, which rejects year 0 and days the     *)
(* month does not have.                                                    *)
(***************************************************************************)
Digits == <<"0", "1", "2", "3", "4", "5", "6", "7", "8", "9">>
UpperCase ==
    << "A", "B", "C", "D", "E", "F", "G", "H", "I", "J", "K", "L", "M",
       "N", "O", "P", "Q", "R", "S", "T", "U", "V", "W", "X", "Y", "Z" >>
LowerCase ==
    << "a", "b", "c", "d", "e", "f", "g", "h", "i", "j", "k", "l", "m",
       "n", "o", "p", "q", "r", "s", "t", "u", "v", "w", "x", "y", "z" >>

IsDigit(c) == \E i \in 1..Len(Digits) : Digits[i] = c
DigitVal(c) == (CHOOSE i \in 1..Len(Digits) : Digits[i] = c) - 1

RECURSIVE NumVal(_)
NumVal(s) == IF s = <<>> THEN 0 ELSE NumVal(SubSeq(s, 1, Len(s) - 1)) * 10 + DigitVal(s[Len(s)])

AllDigits(s) == \A i \in 1..Len(s) : IsDigit(s[i])

lower_char(c) ==
    IF \E i \in 1..Len(UpperCase) : UpperCase[i] = c
    THEN LowerCase[CHOOSE i \in 1..Len(UpperCase) : UpperCase[i] = c]
    ELSE c

lower(s) == [i \in 1..Len(s) |-> lower_char(s[i])]

MonthNames ==
    << <<"j", "a", "n", "u", "a", "r", "y">>, <<"f", "e", "b", "r", "u", "a", "r", "y">>,
       <<"m", "a", "r", "c", "h">>, <<"a", "p", "r", "i", "l">>, <<"m", "a", "y">>,
       <<"j", "u", "n", "e">>, <<"j", "u", "l", "y">>, <<"a", "u", "g", "u", "s", "t">>,
       <<"s", "e", "p", "t", "e", "m", "b", "e", "r">>, <<"o", "c", "t", "o", "b", "e", "r">>,
       <<"n", "o", "v", "e", "m", "b", "e", "r">>, <<"d", "e", "c", "e", "m", "b", "e", "r">> >>

\* %Y: four digits, and a year datetime accepts (1..9999).
MatchesYear(s) == Len(s) = 4 /\ AllDigits(s) /\ NumVal(s) >= 1

\* %m: 1[0-2]|0[1-9]|[1-9]
MatchesMonthNumber(s) ==
    /\ Len(s) \in {1, 2} /\ AllDigits(s)
    /\ NumVal(s) \in 1..12

\* %d: 3[01]|[12]\d|0[1-9]|[1-9]| [1-9]
MatchesDayNumber(s) ==
    \/ Len(s) \in {1, 2} /\ AllDigits(s) /\ NumVal(s) \in 1..31
    \/ Len(s) = 2 /\ s[1] = " " /\ IsDigit(s[2]) /\ s[2] # "0"

IsLeap(y) == (y % 4 = 0 /\ y % 100 # 0) \/ y % 400 = 0

DaysIn(y, m) ==
    IF m = 2 THEN (IF IsLeap(y) THEN 29 ELSE 28)
    ELSE IF m \in {4, 6, 9, 11} THEN 30 ELSE 31

\* %b (abbr = TRUE) or %B: a month name, in any case.
MatchesMonthName(s, abbr) ==
    \E i \in 1..Len(MonthNames) :
        lower(s) = (IF abbr THEN SubSeq(MonthNames[i], 1, 3) ELSE MonthNames[i])

\* The ways to cut s in two around a separator run: the characters before
\* position i, the run from i to j, and the characters after j.
Cuts(s) == {<<i, j>> \in (1..Len(s)) \X (1..Len(s)) : i <= j}

\* "%m/%Y"
MatchesMonthSlashYear(s) ==
    \E c \in Cuts(s) :
        /\ c[1] = c[2] /\ s[c[1]] = "/"
        /\ MatchesMonthNumber(SubSeq(s, 1, c[1] - 1))
        /\ MatchesYear(SubSeq(s, c[2] + 1, Len(s)))

\* "%b %Y" and "%B %Y"
MatchesMonthNameYear(s, abbr) ==
    \E c \in Cuts(s) :
        /\ \A k \in c[1]..c[2] : s[k] \in Whitespace
        /\ MatchesMonthName(SubSeq(s, 1, c[1] - 1), abbr)
        /\ MatchesYear(SubSeq(s, c[2] + 1, Len(s)))

\* "%Y-%m-%d"
MatchesIsoDate(s) ==
    /\ Len(s) >= 8 /\ s[5] = "-"
    /\ MatchesYear(SubSeq(s, 1, 4))
    /\ \E j \in 7..(Len(s) - 1) :
          LET m == SubSeq(s, 6, j - 1)
              d == SubSeq(s, j + 1, Len(s))
          IN  /\ s[j] = "-"
              /\ MatchesMonthNumber(m) /\ MatchesDayNumber(d)
              /\ NumVal(SubSeq(d, IF d[1] = " " THEN 2 ELSE 1, Len(d)))
                    <= DaysIn(NumVal(SubSeq(s, 1, 4)), NumVal(m))

PresentText == <<"P", "r", "e", "s", "e", "n", "t">>

\* datetime.strptime(s, fmt) succeeds for some fmt of DATE_FORMATS
MatchesSomeDateFormat(s) ==
    \/ MatchesYear(s)
    \/ MatchesMonthSlashYear(s)
    \/ MatchesMonthNameYear(s, TRUE)
    \/ MatchesIsoDate(s)
    \/ MatchesMonthNameYear(s, FALSE)
    \/ lower(s) = lower(PresentText)

ValueError(m) == Raise(<<"ValueError", m>>)

\* validate_date(date_string): True, or the ValueError whose message
\* quotes date_string.
validate_date(date_string) ==
    IF ~Truthy(date_string) THEN Ok(TRUE)
    ELSE IF MatchesSomeDateFormat(py_str(date_string)) THEN Ok(TRUE)
    ELSE Raise(<<"ValueError", "Invalid date format", py_str(date_string)>>)

(***************************************************************************)
(* Dictionaries and lists.                                                 *)
(***************************************************************************)
\* key in d
Has(d, k) == k \in DOMAIN d.d

\* d.get(k, default)
Get(d, k, default) == IF Has(d, k) THEN d.d[k] ELSE default

\* d with d[k] = v
Put(d, k, v) == PyDict([x \in DOMAIN d.d \cup {k} |-> IF x = k THEN v ELSE d.d[x]])

\* d without the keys in K
Without(d, K) == PyDict([x \in DOMAIN d.d \ K |-> d.d[x]])

\* xs.append(v)
Append_(xs, v) == PyList(Append(xs.xs, v))

EmptyStr == PyStr(<<>>)
EmptyList == PyList(<<>>)
EmptyDict == PyDict(<<>>)

\* Is a a prefix of s
IsPrefix(a, s) == Len(a) <= Len(s) /\ SubSeq(s, 1, Len(a)) = a

\* Does a occur in s as a contiguous run
Contains(s, a) == \E i \in 0..(Len(s) - Len(a)) : SubSeq(s, i + 1, i + Len(a)) = a

\* str.replace(old, new): left to right, every non-overlapping occurrence.
RECURSIVE replace(_, _, _)
replace(s, old, new) ==
    IF s = <<>> THEN <<>>
    ELSE IF IsPrefix(old, s)
         THEN new \o replace(SubSeq(s, Len(old) + 1, Len(s)), old, new)
         ELSE <<Head(s)>> \o replace(Tail(s), old, new)

(***************************************************************************)
(* Rendered text.  A rendered str is a sequence of pieces: Lit(m) is a run *)
(* of characters written in the program or the template (markup), Usr(c)   *)
(* is one character that was interpolated from a value of the document.    *)
(* The str the program returns is the pieces read in order; the kind of a  *)
(* piece records where its characters come from.                           *)
(***************************************************************************)
Lit(m) == [k |-> "lit", s |-> m]
Usr(c) == [k |-> "usr", s |-> c]

\* The characters of s as interpolated text.
Interp(s) == [i \in 1..Len(s) |-> Usr(s[i])]

\* {escape_text(v)} inside an f-string
Esc(v) == Interp(escape_text(v))

\* The items joined last to first: what the join over the bullets does not do.
RECURSIVE bullets_html_reversed(_)
bullets_html_reversed(items) ==
    IF items = <<>> THEN <<>>
    ELSE bullets_html_reversed(Tail(items))
         \o <<Lit("<li>")>> \o Interp(escape_text(Head(items))) \o <<Lit("</li>")>>

\* "".join([f"<li>{escape_text(item)}</li>" for item in items])
RECURSIVE bullets_html(_)
bullets_html(items) ==
    IF items = <<>> THEN <<>>
    ELSE <<Lit("<li>")>> \o Esc(Head(items)) \o <<Lit("</li>")>> \o bullets_html(Tail(items))

\* The first key of keys (in evaluation order) that d lacks, or "" if none.
RECURSIVE FirstMissing(_, _)
FirstMissing(d, keys) ==
    IF keys = <<>> THEN ""
    ELSE IF ~Has(d, Head(keys)) THEN Head(keys) ELSE FirstMissing(d, Tail(keys))

KeyError(k) == Raise(<<"KeyError", k>>)

\* One block of generate_experience_html: the body of its for loop.
experience_block(exp) ==
    LET bullets == bullets_html(Get(exp, "bullets", EmptyList).xs)
        missing == FirstMissing(exp, <<"end_date", "start_date", "title", "company">>)
    IN  IF missing # "" THEN KeyError(missing)
        ELSE Ok(<<Lit("<section class=\"blocks\"><div class=\"date\"><span>")>>
                \o Esc(exp.d["end_date"]) \o <<Lit("</span><span>")>>
                \o Esc(exp.d["start_date"])
                \o <<Lit("</span></div><div class=\"decorator\"></div><div class=\"details\"><header><h3>")>>
                \o Esc(exp.d["title"]) \o <<Lit("</h3><span class=\"place\">")>>
                \o Esc(exp.d["company"]) \o <<Lit("</span><span class=\"location\">")>>
                \o Esc(Get(exp, "location", EmptyStr))
                \o <<Lit("</span></header><div><ul>")>>
                \o bullets \o <<Lit("</ul></div></div></section>")>>)

\* One block of generate_projects_html.
projects_block(proj) ==
    LET bullets == bullets_html(Get(proj, "bullets", EmptyList).xs)
        missing == FirstMissing(proj, <<"end_date", "start_date", "title">>)
    IN  IF missing # "" THEN KeyError(missing)
        ELSE Ok(<<Lit("<section class=\"blocks\"><div class=\"date\"><span>")>>
                \o Esc(proj.d["end_date"]) \o <<Lit("</span><span>")>>
                \o Esc(proj.d["start_date"])
                \o <<Lit("</span></div><div class=\"decorator\"></div><div class=\"details\"><header><h3>")>>
                \o Esc(proj.d["title"]) \o <<Lit("</h3><span class=\"place\">")>>
                \o Esc(Get(proj, "subtitle", EmptyStr))
                \o <<Lit("</span></header><div><ul>")>>
                \o bullets \o <<Lit("</ul></div></div></section>")>>)

\* One block of generate_education_html.
education_block(edu) ==
    LET missing == FirstMissing(edu, <<"end_date", "start_date", "degree", "school">>)
    IN  IF missing # "" THEN KeyError(missing)
        ELSE Ok(<<Lit("<section class=\"blocks\"><div class=\"date\"><span>")>>
                \o Esc(edu.d["end_date"]) \o <<Lit("</span><span>")>>
                \o Esc(edu.d["start_date"])
                \o <<Lit("</span></div><div class=\"decorator\"></div><div class=\"details\"><header><h3>")>>
                \o Esc(edu.d["degree"]) \o <<Lit("</h3><span class=\"place\">")>>
                \o Esc(edu.d["school"]) \o <<Lit("</span><span class=\"location\">")>>
                \o Esc(Get(edu, "location", EmptyStr))
                \o <<Lit("</span></header><div>")>>
                \o Esc(Get(edu, "notes", EmptyStr)) \o <<Lit("</div></div></section>")>>)

\* One block of generate_skills_html.
skills_block(skill) ==
    LET missing == FirstMissing(skill, <<"category", "skills">>)
    IN  IF missing # "" THEN KeyError(missing)
        ELSE Ok(<<Lit("<ul><li><strong>")>> \o Esc(skill.d["category"])
                \o <<Lit(":</strong></li><li>")>> \o Esc(skill.d["skills"])
                \o <<Lit("</li></ul>")>>)

\* The block of an entry of the section kind.
section_block(kind, entry) ==
    CASE kind = "experience" -> experience_block(entry)
      [] kind = "projects" -> projects_block(entry)
      [] kind = "education" -> education_block(entry)
      [] kind = "skills" -> skills_block(entry)

\* A loop that puts each block in front of the fragment built so far.
RECURSIVE section_loop_prepend(_, _, _)
section_loop_prepend(kind, entries, html) ==
    IF entries = <<>> THEN Ok(html)
    ELSE LET b == section_block(kind, Head(entries))
         IN  IF b.ok THEN section_loop_prepend(kind, Tail(entries), b.v \o html) ELSE b

\* for entry in entries: html += block; return html
RECURSIVE section_loop(_, _, _)
section_loop(kind, entries, html) ==
    IF entries = <<>> THEN Ok(html)
    ELSE LET b == section_block(kind, Head(entries))
         IN  IF b.ok THEN section_loop(kind, Tail(entries), html \o b.v) ELSE b

generate_experience_html(experiences) == section_loop("experience", experiences.xs, <<>>)
generate_projects_html(projects) == section_loop("projects", projects.xs, <<>>)
generate_education_html(education) == section_loop("education", education.xs, <<>>)
generate_skills_html(skills) == section_loop("skills", skills.xs, <<>>)

\* The renderer of a section kind.
generate_section_html(kind, entries) ==
    CASE kind = "experience" -> generate_experience_html(entries)
      [] kind = "projects" -> generate_projects_html(entries)
      [] kind = "education" -> generate_education_html(entries)
      [] kind = "skills" -> generate_skills_html(entries)

(***************************************************************************)
(* Template resolution and the document renderer.                          *)
(***************************************************************************)
\* The candidate template paths of generate_html, in the order it tries them.
possible_paths ==
    << "<module>/templates/resume_template.html",
       "<module>/resume_template.html",
       "./templates/resume_template.html",
       "./resume_template.html",
       "<module>/../templates/resume_template.html" >>

\* What the file system answers for a candidate path:
\*   absent       exists() is False
\*   file         exists() is True, open and read succeed
\*   denied       exists() or open raises PermissionError
\*   vanished     exists() is True, open raises FileNotFoundError
\*   directory    exists() is True, open raises IsADirectoryError
\*   undecodable  exists() is True, read raises UnicodeDecodeError
PathStatus == {"absent", "file", "denied", "vanished", "directory", "undecodable"}

\* The loop over possible_paths from candidate i on: Ok(j) when candidate j
\* was read, Ok(0) when html_template stays None, or the exception that the
\* except clause (FileNotFoundError, PermissionError) does not catch.
RECURSIVE load_template_from(_, _)
load_template_from(files, i) ==
    IF i > Len(possible_paths) THEN Ok(0)
    ELSE LET st == files[i]
         IN  CASE st = "file" -> Ok(i)
               [] st \in {"absent", "denied", "vanished"} -> load_template_from(files, i + 1)
               [] st = "directory" -> Raise(<<"IsADirectoryError", possible_paths[i]>>)
               [] st = "undecodable" -> Raise(<<"UnicodeDecodeError", possible_paths[i]>>)

load_template(files) == load_template_from(files, 1)

Slot(n) == [k |-> "slot", s |-> n]

\* The template file resume_template.html: a document with each of the ten
\* placeholders once.
resume_template ==
    << Lit("<!DOCTYPE html>"), Lit("<html lang=\"en\"><head><title>Resume</title></head><body>"),
       Lit("<h1>"), Slot("name"), Lit("</h1>"), Lit("<span class=\"subtitle\">"), Slot("subtitle"),
       Lit("</span><section class=\"main-block\">"), Slot("experience"),
       Lit("</section><section class=\"main-block\">"), Slot("projects"),
       Lit("</section><section class=\"main-block concise\">"), Slot("education"),
       Lit("</section><aside><ul><a href=\""), Slot("website"), Lit("\">"),
       Slot("website_display"), Lit("</a><li><a href=\"mailto:"), Slot("email"),
       Lit("\"></a></li><li>"), Slot("phone"), Lit("</li></ul><div id=\"skills\">"),
       Slot("skills"), Lit("</div></aside></body>"), Lit("</html>") >>

\* The document returned when no template was read.
fallback_html ==
    << Lit("<html>"), Lit("<body><p>"), Lit("Resume template not found"),
       Lit("</p></body>"), Lit("</html>") >>

\* The replacement field {n} as it is spelled in a text.
field_spelling ==
    [name |-> <<"n", "a", "m", "e">>, subtitle |-> <<"s", "u", "b", "t", "i", "t", "l", "e">>,
     experience |-> <<"e", "x", "p", "e", "r", "i", "e", "n", "c", "e">>,
     projects |-> <<"p", "r", "o", "j", "e", "c", "t", "s">>,
     education |-> <<"e", "d", "u", "c", "a", "t", "i", "o", "n">>,
     skills |-> <<"s", "k", "i", "l", "l", "s">>,
     website |-> <<"w", "e", "b", "s", "i", "t", "e">>,
     website_display |-> <<"w", "e", "b", "s", "i", "t", "e", "_", "d", "i", "s", "p", "l", "a", "y">>,
     email |-> <<"e", "m", "a", "i", "l">>, phone |-> <<"p", "h", "o", "n", "e">>]

\* A substituted value read again as a template: a run {n} of its
\* characters is replaced by the argument n.
RECURSIVE reparsed(_, _)
reparsed(pieces, args) ==
    IF pieces = <<>> THEN <<>>
    ELSE LET fields == {n \in DOMAIN args :
                          IsPrefix(Interp(<<"{">> \o field_spelling[n] \o <<"}">>), pieces)}
         IN  IF fields # {}
             THEN LET n == CHOOSE n \in fields : TRUE
                  IN  args[n] \o reparsed(SubSeq(pieces, Len(field_spelling[n]) + 3, Len(pieces)), args)
             ELSE <<Head(pieces)>> \o reparsed(Tail(pieces), args)

\* Substitution that parses what it substituted: what str.format does not do.
RECURSIVE format_reparsing(_, _)
format_reparsing(template, args) ==
    IF template = <<>> THEN <<>>
    ELSE (IF Head(template).k = "slot" THEN reparsed(args[Head(template).s], args)
          ELSE <<Head(template)>>)
         \o format_reparsing(Tail(template), args)

\* str.format(**args): each placeholder is replaced by its argument.
RECURSIVE format(_, _)
format(template, args) ==
    IF template = <<>> THEN <<>>
    ELSE (IF Head(template).k = "slot" THEN args[Head(template).s] ELSE <<Head(template)>>)
         \o format(Tail(template), args)

YourName == PyStr(<<"Y", "o", "u", "r", " ", "N", "a", "m", "e">>)
Https == <<"h", "t", "t", "p", "s", ":", "/", "/">>
Http == <<"h", "t", "t", "p", ":", "/", "/">>

AttributeError(a) == Raise(<<"AttributeError", a>>)

\* The part of generate_html after the template was read: sections, website,
\* then html_template.format(...).
render_template(data) ==
    LET exp_html == generate_experience_html(Get(data, "experience", EmptyList))
        proj_html == generate_projects_html(Get(data, "projects", EmptyList))
        edu_html == generate_education_html(Get(data, "education", EmptyList))
        skills_html == generate_skills_html(Get(data, "skills", EmptyList))
        contact == Get(data, "contact", EmptyDict)
        website == Get(contact, "website", EmptyStr)
        website_display == PyStr(replace(replace(website.s, Https, <<>>), Http, <<>>))
    IN  IF ~exp_html.ok THEN exp_html
        ELSE IF ~proj_html.ok THEN proj_html
        ELSE IF ~edu_html.ok THEN edu_html
        ELSE IF ~skills_html.ok THEN skills_html
        ELSE IF ~IsDict(contact) THEN AttributeError("get")
        ELSE IF ~IsStr(website) THEN AttributeError("replace")
        ELSE Ok(format(resume_template,
                [name |-> Esc(Get(data, "name", YourName)),
                 subtitle |-> Esc(Get(data, "subtitle", EmptyStr)),
                 experience |-> exp_html.v,
                 projects |-> proj_html.v,
                 education |-> edu_html.v,
                 skills |-> skills_html.v,
                 website |-> Esc(website),
                 website_display |-> Esc(website_display),
                 email |-> Esc(Get(contact, "email", EmptyStr)),
                 phone |-> Esc(Get(contact, "phone", EmptyStr))]))

\* generate_html(data), with the state of the file system as an argument.
generate_html(data, files) ==
    LET html_template == load_template(files)
    IN  IF ~html_template.ok THEN html_template
        ELSE IF html_template.v = 0 THEN Ok(fallback_html)
        ELSE render_template(data)

\* create_default_data(), and the initial resume_data of ResumeBuilder.
create_default_data ==
    PyDict([name |-> EmptyStr, subtitle |-> EmptyStr,
            contact |-> PyDict([website |-> EmptyStr, email |-> EmptyStr, phone |-> EmptyStr]),
            experience |-> EmptyList, projects |-> EmptyList,
            education |-> EmptyList, skills |-> EmptyList])

(***************************************************************************)
(* JSON text.  A file is a sequence of items: the characters of the text,  *)
(* except that a key of an object is one item between its quotes (the keys *)
(* are names and hold no character that JSON escapes).                     *)
(***************************************************************************)
\* The keys of the documents, in the order the dict literals of the program
\* insert them (json.dump writes a dict in insertion order).
KeyOrder ==
    << "name", "subtitle", "contact", "website", "email", "phone",
       "experience", "projects", "education", "skills",
       "title", "degree", "company", "school", "location", "category",
       "start_date", "end_date", "notes", "bullets", "foo" >>

OrderedKeys(d) == SelectSeq(KeyOrder, LAMBDA k : k \in DOMAIN d)

\* indent=2: a new line and two blanks for each level
Indent(level) == <<"\n">> \o [i \in 1..(2 * level) |-> " "]

\* The body of a str between quotes, written without escaping anything.
json_string_body_raw(s) == s

\* The body of a str between quotes, ensure_ascii=False: the quote, the
\* backslash and the control characters are escaped.
RECURSIVE json_string_body(_)
json_string_body(s) ==
    IF s = <<>> THEN <<>>
    ELSE (CASE Head(s) = "\"" -> <<"\\", "\"">>
            [] Head(s) = "\\" -> <<"\\", "\\">>
            [] Head(s) = "\n" -> <<"\\", "n">>
            [] Head(s) = "\t" -> <<"\\", "t">>
            [] OTHER -> <<Head(s)>>)
         \o json_string_body(Tail(s))

RECURSIVE json_dumps_at(_, _)
RECURSIVE json_items(_, _, _, _)

\* The members of a dict (keys # <<>>) or the elements of a list from
\* position i on, one per line, separated by commas.
json_items(v, keys, i, level) ==
    LET n == IF v.t = "dict" THEN Len(keys) ELSE Len(v.xs)
        item == IF v.t = "dict"
                THEN <<"\"", keys[i], "\"", ":", " ">> \o json_dumps_at(v.d[keys[i]], level)
                ELSE json_dumps_at(v.xs[i], level)
    IN  IF i > n THEN <<>>
        ELSE Indent(level) \o item \o (IF i < n THEN <<",">> ELSE <<>>)
             \o json_items(v, keys, i + 1, level)

json_dumps_at(v, level) ==
    CASE v.t = "none" -> <<"n", "u", "l", "l">>
      [] v.t = "str" -> <<"\"">> \o json_string_body(v.s) \o <<"\"">>
      [] v.t = "list" ->
            IF v.xs = <<>> THEN <<"[", "]">>
            ELSE <<"[">> \o json_items(v, <<>>, 1, level + 1) \o Indent(level) \o <<"]">>
      [] v.t = "dict" ->
            IF DOMAIN v.d = {} THEN <<"{", "}">>
            ELSE <<"{">> \o json_items(v, OrderedKeys(v.d), 1, level + 1)
                 \o Indent(level) \o <<"}">>

\* json.dumps(v, indent=2, ensure_ascii=False)
json_dumps(v) == json_dumps_at(v, 0)

JSONDecodeError == Raise(<<"JSONDecodeError", "">>)

\* A parse step: the value read and the position after it, or failure.
Parsed(v, i) == [ok |-> TRUE, v |-> v, i |-> i]
NoParse == [ok |-> FALSE]

RECURSIVE skip_ws(_, _)
skip_ws(s, i) == IF i <= Len(s) /\ s[i] \in {" ", "\n", "\t", "\r"} THEN skip_ws(s, i + 1) ELSE i

\* The body of a string from position i (after the opening quote) on.
RECURSIVE parse_string(_, _, _)
parse_string(s, i, acc) ==
    IF i > Len(s) THEN NoParse
    ELSE CASE s[i] = "\"" -> Parsed(PyStr(acc), i + 1)
           [] s[i] = "\\" ->
                IF i + 1 > Len(s) THEN NoParse
                ELSE CASE s[i + 1] = "\"" -> parse_string(s, i + 2, Append(acc, "\""))
                       [] s[i + 1] = "\\" -> parse_string(s, i + 2, Append(acc, "\\"))
                       [] s[i + 1] = "/" -> parse_string(s, i + 2, Append(acc, "/"))
                       [] s[i + 1] = "n" -> parse_string(s, i + 2, Append(acc, "\n"))
                       [] s[i + 1] = "t" -> parse_string(s, i + 2, Append(acc, "\t"))
                       [] OTHER -> NoParse
           [] s[i] \in {"\n", "\t"} -> NoParse
           [] OTHER -> parse_string(s, i + 1, Append(acc, s[i]))

RECURSIVE parse_value(_, _)
RECURSIVE parse_elements(_, _, _)
RECURSIVE parse_members(_, _, _)

\* The elements of an array; i is the position of the next element.
parse_elements(s, i, xs) ==
    LET e == parse_value(s, i)
        j == skip_ws(s, e.i)
    IN  IF ~e.ok \/ j > Len(s) THEN NoParse
        ELSE CASE s[j] = "," -> parse_elements(s, skip_ws(s, j + 1), Append(xs, e.v))
               [] s[j] = "]" -> Parsed(PyList(Append(xs, e.v)), j + 1)
               [] OTHER -> NoParse

\* The members of an object; i is the position of the next member.  A key
\* that occurs again replaces the earlier member.
parse_members(s, i, d) ==
    IF i + 2 > Len(s) \/ s[i] # "\"" \/ s[i + 1] = "\"" \/ s[i + 2] # "\"" THEN NoParse
    ELSE LET c == skip_ws(s, i + 3)
         IN  IF c > Len(s) \/ s[c] # ":" THEN NoParse
             ELSE LET m == parse_value(s, skip_ws(s, c + 1))
                      j == skip_ws(s, m.i)
                      d2 == [x \in DOMAIN d \cup {s[i + 1]} |->
                                IF x = s[i + 1] THEN m.v ELSE d[x]]
                  IN  IF ~m.ok \/ j > Len(s) THEN NoParse
                      ELSE CASE s[j] = "," -> parse_members(s, skip_ws(s, j + 1), d2)
                             [] s[j] = "}" -> Parsed(PyDict(d2), j + 1)
                             [] OTHER -> NoParse

parse_value(s, i) ==
    IF i > Len(s) THEN NoParse
    ELSE CASE s[i] = "\"" -> parse_string(s, i + 1, <<>>)
           [] s[i] = "n" ->
                IF i + 3 <= Len(s) /\ SubSeq(s, i, i + 3) = <<"n", "u", "l", "l">>
                THEN Parsed(PyNone, i + 4) ELSE NoParse
           [] s[i] = "[" ->
                LET j == skip_ws(s, i + 1)
                IN  IF j <= Len(s) /\ s[j] = "]" THEN Parsed(EmptyList, j + 1)
                    ELSE parse_elements(s, j, <<>>)
           [] s[i] = "{" ->
                LET j == skip_ws(s, i + 1)
                IN  IF j <= Len(s) /\ s[j] = "}" THEN Parsed(EmptyDict, j + 1)
                    ELSE parse_members(s, j, <<>>)
           [] OTHER -> NoParse

\* json.loads(s): the value, or JSONDecodeError (also for text after it)
json_loads(s) ==
    LET p == parse_value(s, skip_ws(s, 1))
    IN  IF p.ok /\ skip_ws(s, p.i) > Len(s) THEN Ok(p.v) ELSE JSONDecodeError

(***************************************************************************)
(* Specification of the sanitizer: a text is drawn, then sanitized.        *)
(***************************************************************************)
TextInputs == {PyNone} \cup {PyStr(s) : s \in StringsUpTo(Alphabet, MaxTextLen)}

NoDoc == PyDict(<<>>)
EmptyForm == [name |-> <<>>, subtitle |-> <<>>, website |-> <<>>, email |-> <<>>, phone |-> <<>>]
NoBoxes == [experience |-> <<>>, projects |-> <<>>, education |-> <<>>, skills |-> <<>>]

InitSanitize ==
    /\ text \in TextInputs
    /\ resume_data = NoDoc
    /\ boxes = NoBoxes
    /\ form = EmptyForm
    /\ fs = <<>>
    /\ json_file = <<>>
    /\ result = Ok(<<>>)
    /\ op = "init"

SanitizeStep ==
    /\ op = "init"
    /\ \E ml \in {SmallMaxLength, default_max_length} :
          result' = Ok(sanitize_input(text, ml))
    /\ op' = "sanitize_input"
    /\ UNCHANGED <<text, resume_data, boxes, form, fs, json_file>>

NextSanitize == SanitizeStep

SpecSanitize == InitSanitize /\ [][NextSanitize]_vars

Entities ==
    { <<"&", "a", "m", "p", ";">>, <<"&", "l", "t", ";">>, <<"&", "g", "t", ";">>,
      <<"&", "q", "u", "o", "t", ";">>, <<"&", "#", "x", "2", "7", ";">> }

\* Every ampersand of s begins one of the five entities.
AmpersandsAreEntities(s) ==
    \A i \in 1..Len(s) :
        s[i] = "&" => \E e \in Entities :
            /\ i + Len(e) - 1 <= Len(s)
            /\ SubSeq(s, i, i + Len(e) - 1) = e

\* C1 (as stated): the string returned by sanitize_input contains none of
\* the characters <, >, &, ", '.
C1_NoSpecialAtAll ==
    op = "sanitize_input" =>
        \A i \in 1..Len(result.v) : result.v[i] \notin HtmlSpecial

\* C1 (amended): the string returned by sanitize_input contains none of the
\* characters <, >, ", ', and every & in it begins one of the entities
\* &amp; &lt; &gt; &quot; &#x27;.
C1_SanitizedIsEscaped ==
    op = "sanitize_input" =>
        /\ \A i \in 1..Len(result.v) : result.v[i] \notin {"<", ">", "\"", "'"}
        /\ AmpersandsAreEntities(result.v)

\* A text holding a quote and a tag bracket has been sanitized.
C1_Witness ==
    /\ op = "sanitize_input"
    /\ IsStr(text)
    /\ \E i, j \in 1..Len(text.s) : text.s[i] = "<" /\ text.s[j] = "'"
    /\ Len(result.v) > Len(text.s)

max_lengths == {SmallMaxLength, default_max_length}

NoSpecial(s) == \A i \in 1..Len(s) : s[i] \notin HtmlSpecial

\* Truncation first, then trimming, then escaping, written out on the
\* characters of t.
TruncTrimEscape(t, ml) ==
    html_escape(strip([i \in 1..Min(ml, Len(t)) |-> t[i]]))

\* What C18 says of sanitize_input(text, ml), but for the length of the
\* result of a long plain text, which is the argument long(text, ml).
SanitizeContract(ml, long) ==
    LET r == sanitize_input(text, ml)
    IN  /\ ~Truthy(text) => r = <<>>
        /\ Truthy(text) => r = TruncTrimEscape(text.s, ml)
        /\ (IsStr(text) /\ Len(text.s) > ml /\ long) => Len(r) = ml

\* C18 (as stated): sanitize_input returns "" for None or empty text and
\* never raises; otherwise its result is html.escape(strip(first max_length
\* characters)); for text without special characters or surrounding
\* whitespace and longer than max_length the result has exactly max_length
\* characters.
C18_ExactLengthIfNotSurrounded ==
    op = "sanitize_input" =>
        /\ result.ok
        /\ \E ml \in max_lengths : result.v = sanitize_input(text, ml)
        /\ \A ml \in max_lengths :
              SanitizeContract(ml, NoSpecial(text.s) /\ strip(text.s) = text.s)

\* C18 (amended): sanitize_input returns "" for None or empty text and
\* never raises; otherwise its result is html.escape(strip(first max_length
\* characters)); for text longer than max_length whose first max_length
\* characters hold no special character and neither begin nor end with
\* whitespace, the result has exactly max_length characters.
C18_TruncateThenTrimThenEscape ==
    op = "sanitize_input" =>
        /\ result.ok
        /\ \E ml \in max_lengths : result.v = sanitize_input(text, ml)
        /\ \A ml \in max_lengths :
              SanitizeContract(ml, /\ NoSpecial(SubSeq(text.s, 1, ml))
                                   /\ strip(SubSeq(text.s, 1, ml)) = SubSeq(text.s, 1, ml))

\* A text that begins with a blank and is longer than the small max_length
\* was cut there, trimmed to something shorter, and escaped.
C18_Witness ==
    /\ op = "sanitize_input"
    /\ IsStr(text) /\ Len(text.s) > SmallMaxLength
    /\ text.s[1] = " " /\ text.s[SmallMaxLength] = "<"
    /\ result.v = TruncTrimEscape(text.s, SmallMaxLength)
    /\ result.v # TruncTrimEscape(text.s, default_max_length)

\* C24: escaping at storage time and again at render time is safe: for
\* every text t, escape_text(sanitize_input(t)) = sanitize_input(t), so a
\* sanitized value is shown in the page as single-escaped text.
C24_SecondEscapeChangesNothing ==
    op = "sanitize_input" => escape_text(PyStr(result.v)) = result.v

(***************************************************************************)
(* Specification of the renderer: a document and a state of the template   *)
(* files are drawn, then generate_html is applied.  The documents are the  *)
(* bodies a caller can pass: any of the seven keys may be absent, contact  *)
(* may lack sub-keys, entries may lack fields, texts may hold markup.      *)
(***************************************************************************)
TagText == <<"<", "a", ">">>
AmpText == <<"&">>
QuoteText == <<"\"", "'">>
UrlText == Https \o <<"a">>
Year == <<"2", "0", "2", "4">>

NameVals == {EmptyStr, PyStr(TagText), PyNone}
SubtitleVals == {EmptyStr, PyStr(AmpText)}
ContactVals ==
    { EmptyDict,
      PyDict([website |-> PyStr(UrlText), email |-> PyStr(<<"a">>), phone |-> PyStr(QuoteText)]),
      PyDict([website |-> PyNone, email |-> PyStr(TagText)]) }

ExpA ==
    PyDict([title |-> PyStr(TagText), company |-> PyStr(AmpText), location |-> PyStr(<<"a">>),
            start_date |-> PyStr(Year), end_date |-> EmptyStr,
            bullets |-> PyList(<<PyStr(TagText), PyStr(QuoteText)>>)])
ExpB ==
    PyDict([title |-> PyStr(<<"a">>), company |-> PyStr(<<"a">>),
            start_date |-> EmptyStr, end_date |-> PyStr(Year)])
ProjA ==
    PyDict([title |-> PyStr(QuoteText), subtitle |-> PyStr(TagText),
            start_date |-> PyStr(Year), end_date |-> PyStr(Year),
            bullets |-> PyList(<<PyStr(AmpText)>>)])
EduA ==
    PyDict([degree |-> PyStr(<<"a">>), school |-> PyStr(TagText), location |-> EmptyStr,
            start_date |-> PyStr(Year), end_date |-> PyStr(Year), notes |-> PyStr(QuoteText)])
SkillA == PyDict([category |-> PyStr(TagText), skills |-> PyStr(AmpText)])

ExperienceVals == {<<>>, <<ExpA, ExpB>>, <<Without(ExpA, {"title"})>>}
ProjectsVals == {<<>>, <<ProjA>>, <<Without(ProjA, {"end_date"})>>}
EducationVals == {<<>>, <<EduA>>}
SkillsVals == {<<>>, <<SkillA>>}

TopLevelKeys == {"name", "subtitle", "contact", "experience", "projects", "education", "skills"}

\* The sets of keys a drawn document lacks: none, any single one, or all.
AbsentKeySets == {{}} \cup {{k} : k \in TopLevelKeys} \cup {TopLevelKeys}

RenderDocs ==
    { Without(PyDict([name |-> n, subtitle |-> s, contact |-> c,
                      experience |-> PyList(e), projects |-> PyList(p),
                      education |-> PyList(ed), skills |-> PyList(sk)]), K) :
        n \in NameVals, s \in SubtitleVals, c \in ContactVals, e \in ExperienceVals,
        p \in ProjectsVals, ed \in EducationVals, sk \in SkillsVals, K \in AbsentKeySets }

\* Documents that differ from the default one in contact.website only: a
\* scheme at the front, in the middle, twice, or not at all.
WebsiteTexts ==
    { <<>>, <<"a">>, Https \o <<"a">>, Http \o <<"a">>, <<"a">> \o Http \o <<"a">>,
      <<"a">> \o Https, Https \o Http \o <<"a">>, Http \o Https \o <<"<">> }

WebsiteDocs ==
    { Put(create_default_data, "contact",
          Put(create_default_data.d["contact"], "website", PyStr(w))) : w \in WebsiteTexts }

\* Documents whose texts look like replacement fields or hold single braces.
BraceTexts ==
    { <<"{", "n", "a", "m", "e", "}">>, <<"{", "e", "m", "a", "i", "l", "}">>,
      <<"{", "0", "}">>, <<"{">>, <<"}", "{">> }

BraceDocs ==
    { PyDict([name |-> PyStr(b), subtitle |-> PyStr(c),
              contact |-> PyDict([website |-> PyStr(c), email |-> PyStr(<<"a">>), phone |-> PyStr(b)]),
              experience |-> PyList(<<PyDict([title |-> PyStr(b), company |-> PyStr(c),
                                              location |-> EmptyStr, start_date |-> PyStr(Year),
                                              end_date |-> EmptyStr, bullets |-> PyList(<<PyStr(c)>>)])>>),
              projects |-> EmptyList, education |-> EmptyList,
              skills |-> PyList(<<PyDict([category |-> PyStr(c), skills |-> PyStr(b)])>>)]) :
        b \in BraceTexts, c \in BraceTexts }

PathIndex == 1..Len(possible_paths)

\* The first candidate is the template file, or no candidate exists.
PlainFiles == {[i \in PathIndex |-> IF i = 1 THEN st ELSE "absent"] : st \in {"file", "absent"}}
AllFiles == [PathIndex -> PathStatus]

InitRender ==
    /\ \/ resume_data \in RenderDocs /\ fs \in PlainFiles
       \/ resume_data \in {create_default_data} /\ fs \in AllFiles
       \/ resume_data \in WebsiteDocs \cup BraceDocs /\ fs \in PlainFiles
    /\ text = PyNone
    /\ boxes = NoBoxes
    /\ form = EmptyForm
    /\ json_file = <<>>
    /\ result = Ok(<<>>)
    /\ op = "init"

GenerateHtmlStep ==
    /\ op = "init"
    /\ result' = generate_html(resume_data, fs)
    /\ op' = "generate_html"
    /\ UNCHANGED <<text, resume_data, boxes, form, fs, json_file>>

NextRender == GenerateHtmlStep

SpecRender == InitRender /\ [][NextRender]_vars

Rendered == op = "generate_html"

\* The template was read: generate_html went on to html_template.format.
TemplateRead == load_template(fs).ok /\ load_template(fs).v # 0

\* The texts of the header and contact fields the document holds.
HeaderTexts(data) ==
    {data.d[k] : k \in {"name", "subtitle"} \cap DOMAIN data.d}
    \cup (IF Has(data, "contact")
          THEN {data.d["contact"].d[k] : k \in DOMAIN data.d["contact"].d} ELSE {})

\* The texts of an entry: its bullets and its other fields.
EntryTexts(entry) ==
    {entry.d[k] : k \in DOMAIN entry.d \ {"bullets"}}
    \cup (IF Has(entry, "bullets")
          THEN {entry.d["bullets"].xs[i] : i \in 1..Len(entry.d["bullets"].xs)} ELSE {})

SectionTexts(data) ==
    UNION {UNION {EntryTexts(data.d[k].xs[i]) : i \in 1..Len(data.d[k].xs)} :
             k \in {"experience", "projects", "education", "skills"} \cap DOMAIN data.d}

\* C2: every user-supplied text value reaches the output of generate_html
\* only in HTML-escaped form: no character of the output that comes from a
\* value of the document is a literal <, >, " or ', and when the template is
\* rendered the escaped form of every text of the document (&lt;a&gt; for
\* <a>) is in the output.
C2_UserTextEscaped ==
    (Rendered /\ result.ok) =>
        /\ \A i \in 1..Len(result.v) :
              result.v[i].k = "usr" => result.v[i].s \notin {"<", ">", "\"", "'"}
        /\ TemplateRead =>
              \A v \in HeaderTexts(resume_data) \cup SectionTexts(resume_data) :
                  Truthy(v) => Contains(result.v, Interp(html_escape(v.s)))

\* A document with markup in its name, its contact and an experience entry
\* has been rendered from the template.
C2_Witness ==
    /\ Rendered /\ result.ok /\ TemplateRead
    /\ Has(resume_data, "name") /\ resume_data.d["name"] = PyStr(TagText)
    /\ Has(resume_data, "experience") /\ resume_data.d["experience"].xs = <<ExpA, ExpB>>
    /\ Has(resume_data, "contact") /\ Has(resume_data.d["contact"], "phone")
    /\ Contains(result.v, Interp(<<"&", "l", "t", ";", "a", "&", "g", "t", ";">>))

\* C3 (as stated): generate_html is total: for every document, including
\* one whose entries lack fields or whose top-level keys or contact sub-keys
\* are absent, it returns a string and never raises.  (Stated here for the
\* documents that hold no null and with every template candidate either a
\* readable file or absent, so that only missing keys and fields are left.)
C3_GenerateHtmlTotal ==
    (/\ Rendered
     /\ \A i \in PathIndex : fs[i] \in {"absent", "file"}
     /\ PyNone \notin HeaderTexts(resume_data)) => result.ok

\* C8 (as stated): when the name is empty (the key present with value "",
\* or the key absent), the rendered document shows "Your Name" in the name
\* slot.
C8_EmptyNamePlaceholder ==
    (/\ Rendered /\ result.ok /\ TemplateRead
     /\ (~Has(resume_data, "name") \/ resume_data.d["name"] = EmptyStr))
        => Contains(result.v, <<Lit("<h1>")>> \o Interp(YourName.s) \o <<Lit("</h1>")>>)

\* C9 (as stated): every string returned by generate_html, template found
\* or not, contains <!DOCTYPE html> and a closing </html>.
C9_DoctypeAndClosingHtml ==
    (Rendered /\ result.ok) =>
        /\ \E i \in 1..Len(result.v) : result.v[i] = Lit("<!DOCTYPE html>")
        /\ \E i \in 1..Len(result.v) : result.v[i] = Lit("</html>")

\* C10 (as stated): template resolution never makes rendering fail: any
\* file-system error met while probing or reading a candidate is treated as
\* "template not found" for that candidate and never surfaced, and with no
\* candidate read the fallback document is returned.
C10_ResolutionNeverFails ==
    (Rendered /\ resume_data = create_default_data) =>
        /\ result.ok
        /\ (\A i \in PathIndex : fs[i] # "file") => result.v = fallback_html

\* The index of the first piece of html after position i that is p, or 0.
RECURSIVE FirstPiece(_, _, _)
FirstPiece(html, p, i) ==
    IF i >= Len(html) THEN 0
    ELSE IF html[i + 1] = p THEN i + 1
    ELSE FirstPiece(html, p, i + 1)

\* The pieces of html between the first piece before and the next piece
\* after: what was written where the template has a placeholder.
SlotPieces(html, before, after) ==
    LET i == FirstPiece(html, before, 0)
        j == FirstPiece(html, after, i)
    IN  SubSeq(html, i + 1, j - 1)

\* w without a scheme at its front: one prefix, at position 0.
WithoutLeadingScheme(w) ==
    IF IsPrefix(Https, w) THEN SubSeq(w, Len(Https) + 1, Len(w))
    ELSE IF IsPrefix(Http, w) THEN SubSeq(w, Len(Http) + 1, Len(w))
    ELSE w

\* C19: website_display is contact.website with only a leading https:// or
\* http:// removed (at most one prefix, only at position 0; a later
\* occurrence is kept), and the link target is the escaped, unmodified
\* website.
C19_OnlyLeadingSchemeStripped ==
    (Rendered /\ TemplateRead /\ result.ok /\ resume_data \in WebsiteDocs) =>
        LET website == resume_data.d["contact"].d["website"].s
        IN  /\ SlotPieces(result.v, Lit("</section><aside><ul><a href=\""), Lit("\">"))
                  = Interp(html_escape(website))
            /\ SlotPieces(result.v, Lit("\">"), Lit("</a><li><a href=\"mailto:"))
                  = Interp(html_escape(WithoutLeadingScheme(website)))

\* What html has where the template has the placeholder n.
SlotValue(html, n) ==
    LET k == CHOOSE k \in DOMAIN resume_template : resume_template[k] = Slot(n)
    IN  SlotPieces(html, resume_template[k - 1], resume_template[k + 1])

\* C20: substitution is literal and single-pass: each of the ten
\* placeholders is filled with its value, and text of the document that
\* looks like a replacement field ({name}, {0}) or holds an unbalanced brace
\* is in the output as it is, is not replaced by another field's value, and
\* causes no error.
C20_SubstitutionIsLiteral ==
    (Rendered /\ TemplateRead /\ resume_data \in BraceDocs) =>
        LET data == resume_data.d
            contact == data["contact"].d
        IN  /\ result.ok
            /\ \A i \in DOMAIN result.v : result.v[i].k # "slot"
            /\ SlotValue(result.v, "name") = Interp(data["name"].s)
            /\ SlotValue(result.v, "subtitle") = Interp(data["subtitle"].s)
            /\ SlotValue(result.v, "website") = Interp(contact["website"].s)
            /\ SlotValue(result.v, "website_display") = Interp(contact["website"].s)
            /\ SlotValue(result.v, "email") = Interp(contact["email"].s)
            /\ SlotValue(result.v, "phone") = Interp(contact["phone"].s)
            /\ SlotValue(result.v, "experience") = generate_experience_html(data["experience"]).v
            /\ SlotValue(result.v, "projects") = <<>>
            /\ SlotValue(result.v, "education") = <<>>
            /\ SlotValue(result.v, "skills") = generate_skills_html(data["skills"]).v
            /\ Contains(SlotValue(result.v, "experience"),
                        Interp(data["experience"].xs[1].d["title"].s))
            /\ Contains(SlotValue(result.v, "skills"),
                        Interp(data["skills"].xs[1].d["skills"].s))

\* A document named {email}, with the email a and a lone { as subtitle, was
\* rendered and its name is in the page as typed.
C20_Witness ==
    /\ Rendered /\ TemplateRead /\ result.ok
    /\ resume_data \in BraceDocs
    /\ resume_data.d["name"].s = <<"{", "e", "m", "a", "i", "l", "}">>
    /\ resume_data.d["subtitle"].s = <<"{">>
    /\ SlotValue(result.v, "name") = Interp(resume_data.d["name"].s)
    /\ SlotValue(result.v, "email") = <<Usr("a")>>

\* C21: template resolution scans the candidate paths in order and uses the
\* first one that exists and is readable; a candidate that exists but
\* cannot be read is skipped and the scan goes on; no candidate after the
\* winning one is consulted; the fallback document is returned only when
\* no candidate is usable.
C21_FirstReadableCandidateWins ==
    (Rendered /\ resume_data = create_default_data) =>
        LET usable == {i \in PathIndex : fs[i] = "file"}
        IN  /\ usable # {} =>
                LET winner == CHOOSE i \in usable : \A j \in usable : i <= j
                IN  /\ load_template(fs) = Ok(winner)
                    /\ result = render_template(resume_data)
                    /\ \A j \in PathIndex, st \in PathStatus :
                          j > winner => load_template([fs EXCEPT ![j] = st]) = Ok(winner)
            /\ usable = {} => result = Ok(fallback_html)

\* The <li> items of a run of pieces, each as the pieces it holds.
RECURSIVE ListItems(_)
ListItems(pieces) ==
    IF pieces = <<>> THEN <<>>
    ELSE LET j == FirstPiece(pieces, Lit("</li>"), 0)
         IN  IF Head(pieces) # Lit("<li>") \/ j = 0 THEN <<pieces>>
             ELSE <<SubSeq(pieces, 2, j - 1)>> \o ListItems(SubSeq(pieces, j + 1, Len(pieces)))

\* The bullet lists of the blocks of html after position i, in page order.
RECURSIVE BulletLists(_, _)
BulletLists(html, i) ==
    LET a == FirstPiece(html, Lit("</span></header><div><ul>"), i)
        b == FirstPiece(html, Lit("</ul></div></div></section>"), a)
    IN  IF a = 0 \/ b = 0 THEN <<>>
        ELSE <<ListItems(SubSeq(html, a + 1, b - 1))>> \o BulletLists(html, b)

\* The escaped bullets of an entry, in the order of its bullets sequence.
EscapedBullets(entry) ==
    LET bullets == IF Has(entry, "bullets") THEN entry.d["bullets"].xs ELSE <<>>
    IN  [i \in DOMAIN bullets |-> Interp(html_escape(bullets[i].s))]

\* C25: in each experience and project block the bullet list has exactly
\* one <li> item per element of the entry's bullets sequence, in the
\* original order, each holding the escaped bullet text; an entry with no
\* bullets field or an empty one renders an empty list and does not raise.
C25_OneItemPerBulletInOrder ==
    (Rendered /\ TemplateRead) =>
        LET exps == Get(resume_data, "experience", EmptyList).xs
            projs == Get(resume_data, "projects", EmptyList).xs
        IN  /\ result.ok =>
                BulletLists(result.v, 0) = [i \in DOMAIN exps |-> EscapedBullets(exps[i])]
                                           \o [i \in DOMAIN projs |-> EscapedBullets(projs[i])]
            /\ ~result.ok => result.exc # <<"KeyError", "bullets">>
            /\ ((\A i \in DOMAIN exps : FirstMissing(exps[i], <<"end_date", "start_date", "title", "company">>) = "")
                /\ (\A i \in DOMAIN projs : FirstMissing(projs[i], <<"end_date", "start_date", "title">>) = "")) =>
                  /\ generate_experience_html(PyList(exps)).ok
                  /\ generate_projects_html(PyList(projs)).ok

\* A document was rendered whose first experience entry has two bullets,
\* whose second has no bullets field, and whose project has one bullet.
C25_Witness ==
    /\ Rendered /\ TemplateRead /\ result.ok
    /\ Has(resume_data, "experience") /\ Has(resume_data, "projects")
    /\ LET exps == resume_data.d["experience"].xs
           projs == resume_data.d["projects"].xs
       IN  /\ Len(exps) = 2 /\ Len(projs) = 1
           /\ Len(exps[1].d["bullets"].xs) = 2
           /\ exps[1].d["bullets"].xs[1] # exps[1].d["bullets"].xs[2]
           /\ ~Has(exps[2], "bullets")
           /\ Len(BulletLists(result.v, 0)) = 3
           /\ Len(BulletLists(result.v, 0)[1]) = 2
           /\ BulletLists(result.v, 0)[2] = <<>>

(***************************************************************************)
(* The GTK window: the add-entry dialogs and handlers.                     *)
(***************************************************************************)
\* s.split("\n")
RECURSIVE split_lines_from(_, _)
split_lines_from(s, line) ==
    IF s = <<>> THEN <<line>>
    ELSE IF Head(s) = "\n" THEN <<line>> \o split_lines_from(Tail(s), <<>>)
    ELSE split_lines_from(Tail(s), Append(line, Head(s)))

split_lines(s) == split_lines_from(s, <<>>)

\* sanitize_input(entry.get_text()) with the default max_length, as a value
Sanitized(s) == PyStr(sanitize_input(PyStr(s), default_max_length))

\* [sanitize_input(line.strip()) for line in bullets_text.split("\n") if line.strip()]
RECURSIVE bullets_of_lines(_)
bullets_of_lines(lines) ==
    IF lines = <<>> THEN <<>>
    ELSE (IF strip(Head(lines)) # <<>> THEN <<Sanitized(strip(Head(lines)))>> ELSE <<>>)
         \o bullets_of_lines(Tail(lines))

\* ExperienceDialog.get_data()
experience_get_data(dialog) ==
    PyDict([title |-> Sanitized(dialog.title), company |-> Sanitized(dialog.company),
            location |-> Sanitized(dialog.location),
            start_date |-> Sanitized(dialog.start_date), end_date |-> Sanitized(dialog.end_date),
            bullets |-> PyList(bullets_of_lines(split_lines(dialog.bullets_text)))])

\* ProjectDialog.get_data()
project_get_data(dialog) ==
    PyDict([title |-> Sanitized(dialog.title), subtitle |-> Sanitized(dialog.subtitle),
            start_date |-> Sanitized(dialog.start_date), end_date |-> Sanitized(dialog.end_date),
            bullets |-> PyList(bullets_of_lines(split_lines(dialog.bullets_text)))])

\* EducationDialog.get_data()
education_get_data(dialog) ==
    PyDict([degree |-> Sanitized(dialog.degree), school |-> Sanitized(dialog.school),
            location |-> Sanitized(dialog.location),
            start_date |-> Sanitized(dialog.start_date), end_date |-> Sanitized(dialog.end_date),
            notes |-> Sanitized(dialog.notes)])

\* SkillDialog.get_data()
skill_get_data(dialog) ==
    PyDict([category |-> Sanitized(dialog.category), skills |-> Sanitized(dialog.skills)])

SectionKinds == {"experience", "projects", "education", "skills"}

TotalEntries == 
    Len(resume_data.d["experience"].xs) + Len(resume_data.d["projects"].xs)
    + Len(resume_data.d["education"].xs) + Len(resume_data.d["skills"].xs)

\* self.resume_data[kind].append(entry); self.add_*_item(entry): the entry
\* goes to the tail of its list and its item widget to the end of its box.
StoreEntry(kind, entry) ==
    /\ resume_data' = Put(resume_data, kind, Append_(resume_data.d[kind], entry))
    /\ boxes' = [boxes EXCEPT ![kind] = Append(@, entry)]

\* The body shared by on_add_experience, on_add_project and
\* on_add_education: on OK the dialog's data is taken, both dates are
\* validated, and the entry is stored; a ValueError is shown and nothing
\* is stored.
AddDatedEntry(kind, response, entry) ==
    IF response # "OK"
    THEN /\ result' = Ok(PyNone)
         /\ UNCHANGED <<resume_data, boxes>>
    ELSE LET v1 == validate_date(entry.d["start_date"])
             v2 == validate_date(entry.d["end_date"])
         IN  IF ~v1.ok THEN result' = v1 /\ UNCHANGED <<resume_data, boxes>>
             ELSE IF ~v2.ok THEN result' = v2 /\ UNCHANGED <<resume_data, boxes>>
             ELSE result' = Ok(entry) /\ StoreEntry(kind, entry)

\* list.remove(x) on a list that holds x: the first item equal to x goes.
RECURSIVE list_remove(_, _)
list_remove(xs, x) ==
    IF xs = <<>> THEN <<>>
    ELSE IF Head(xs) = x THEN Tail(xs)
    ELSE <<Head(xs)>> \o list_remove(Tail(xs), x)

\* xs without its k-th item.
RemoveAt(xs, k) == SubSeq(xs, 1, k - 1) \o SubSeq(xs, k + 1, Len(xs))

\* The Remove button of the k-th item widget of a section box is clicked:
\* remove_item(frame, self.resume_data[kind], item) with the entry the
\* widget was made for.  data_list.remove(item) raises when the list does
\* not hold an equal entry, and the widget then stays.
remove_item ==
    /\ \E kind \in SectionKinds :
          \E k \in DOMAIN boxes[kind] :
              LET item == boxes[kind][k]
                  data_list == resume_data.d[kind]
              IN  IF ~IsList(data_list)
                  THEN /\ result' = Raise(<<"AttributeError", "remove">>)
                       /\ UNCHANGED <<resume_data, boxes>>
                  ELSE IF \A i \in DOMAIN data_list.xs : data_list.xs[i] # item
                  THEN /\ result' = Raise(<<"ValueError", "list.remove(x): x not in list">>)
                       /\ UNCHANGED <<resume_data, boxes>>
                  ELSE /\ resume_data' = Put(resume_data, kind,
                                             PyList(list_remove(data_list.xs, item)))
                       /\ boxes' = [boxes EXCEPT ![kind] = RemoveAt(@, k)]
                       /\ result' = Ok(item)
    /\ op' = "remove_item"
    /\ UNCHANGED <<text, form, fs, json_file>>

Responses == {"OK", "CANCEL"}

\* What the user may type into the dialogs.
TitleTexts == {<<"a">>, <<" ", "<">>, <<" ">>}
StartDateTexts == {Year, <<"a">>}
EndDateTexts == {PresentText, <<"1", "3", "/", "2", "0", "2", "4">>}
BulletsTexts == {<<"a", "\n", " ", "\n", "<">>}

ExperienceForms ==
    [title : TitleTexts, company : {<<"a">>}, location : {<<>>},
     start_date : StartDateTexts, end_date : {PresentText}, bullets_text : BulletsTexts]
ProjectForms ==
    [title : TitleTexts, subtitle : {<<>>},
     start_date : {Year}, end_date : EndDateTexts, bullets_text : {<<>>}]
EducationForms ==
    [degree : TitleTexts, school : {<<"a">>}, location : {<<>>},
     start_date : {<<>>}, end_date : {Year}, notes : {<<"'">>}]
SkillForms == [category : TitleTexts, skills : {<<"a", ",", "a">>}]

\* What get_data() returns for these forms.
ExperienceDialogData == {experience_get_data(dialog) : dialog \in ExperienceForms}
ProjectDialogData == {project_get_data(dialog) : dialog \in ProjectForms}
EducationDialogData == {education_get_data(dialog) : dialog \in EducationForms}
SkillDialogData == {skill_get_data(dialog) : dialog \in SkillForms}

on_add_experience ==
    /\ TotalEntries < MaxEntries
    /\ \E response \in Responses, exp_data \in ExperienceDialogData :
          AddDatedEntry("experience", response, exp_data)
    /\ op' = "on_add_experience"
    /\ UNCHANGED <<text, form, fs, json_file>>

on_add_project ==
    /\ TotalEntries < MaxEntries
    /\ \E response \in Responses, proj_data \in ProjectDialogData :
          AddDatedEntry("projects", response, proj_data)
    /\ op' = "on_add_project"
    /\ UNCHANGED <<text, form, fs, json_file>>

on_add_education ==
    /\ TotalEntries < MaxEntries
    /\ \E response \in Responses, edu_data \in EducationDialogData :
          AddDatedEntry("education", response, edu_data)
    /\ op' = "on_add_education"
    /\ UNCHANGED <<text, form, fs, json_file>>

on_add_skill ==
    /\ TotalEntries < MaxEntries
    /\ \E response \in Responses, skill_data \in SkillDialogData :
          IF response = "OK"
          THEN result' = Ok(skill_data) /\ StoreEntry("skills", skill_data)
          ELSE result' = Ok(PyNone) /\ UNCHANGED <<resume_data, boxes>>
    /\ op' = "on_add_skill"
    /\ UNCHANGED <<text, form, fs, json_file>>

\* A section renderer is applied to the section of the document.
GenerateSectionStep ==
    /\ \E kind \in SectionKinds :
          /\ result' = generate_section_html(kind, resume_data.d[kind])
          /\ op' = kind
    /\ UNCHANGED <<text, resume_data, boxes, form, fs, json_file>>

InitSections ==
    /\ resume_data = create_default_data
    /\ boxes = NoBoxes
    /\ form = EmptyForm
    /\ text = PyNone
    /\ fs = <<>>
    /\ json_file = <<>>
    /\ result = Ok(<<>>)
    /\ op = "init"

NextSections ==
    \/ on_add_experience
    \/ on_add_project
    \/ on_add_education
    \/ on_add_skill
    \/ GenerateSectionStep

SpecSections == InitSections /\ [][NextSections]_vars

\* The blocks of the entries, one after the other from the first entry on.
RECURSIVE BlocksInOrder(_, _, _)
BlocksInOrder(kind, entries, i) ==
    IF i > Len(entries) THEN <<>>
    ELSE section_block(kind, entries[i]).v \o BlocksInOrder(kind, entries, i + 1)

AddOpKind ==
    [on_add_experience |-> "experience", on_add_project |-> "projects",
     on_add_education |-> "education", on_add_skill |-> "skills"]

\* C7: for each section kind the rendered fragment is the concatenation, in
\* sequence order and with no separator, of one block per entry; the empty
\* sequence renders as the empty string; fragment(xs ++ ys) = fragment(xs)
\* ++ fragment(ys); and an entry that was added is the last of its sequence
\* (no sorting is applied).
C7_FragmentInSequenceOrder ==
    /\ op \in SectionKinds =>
          LET xs == resume_data.d[op].xs
          IN  /\ result.ok
              /\ result.v = BlocksInOrder(op, xs, 1)
              /\ xs = <<>> => result.v = <<>>
              /\ \A k \in 0..Len(xs) :
                    result.v = generate_section_html(op, PyList(SubSeq(xs, 1, k))).v
                               \o generate_section_html(op, PyList(SubSeq(xs, k + 1, Len(xs)))).v
    /\ (op \in DOMAIN AddOpKind /\ result.ok /\ result.v # PyNone) =>
          LET xs == resume_data.d[AddOpKind[op]].xs
          IN  xs # <<>> /\ xs[Len(xs)] = result.v

\* Three different experience entries were added one after the other and
\* the experience fragment was rendered.
C7_Witness ==
    /\ op = "experience" /\ result.ok
    /\ LET xs == resume_data.d["experience"].xs
       IN  /\ Len(xs) = 3
           /\ xs[1] # xs[2] /\ xs[2] # xs[3] /\ xs[1] # xs[3]
           /\ result.v # <<>>

\* C16: in every reachable state of the document every experience entry has
\* a non-empty title and company, every project entry a non-empty title,
\* every education entry a non-empty degree and school, and every skill
\* group a non-empty category and skills: an entry with one of these fields
\* empty is never accepted into the document.
NonEmptyField(entry, key) == Has(entry, key) /\ entry.d[key] # EmptyStr

RequiredFields ==
    [experience |-> {"title", "company"}, projects |-> {"title"},
     education |-> {"degree", "school"}, skills |-> {"category", "skills"}]

C16_AcceptedEntriesNonEmpty ==
    \A kind \in SectionKinds :
        \A i \in DOMAIN resume_data.d[kind].xs :
            \A key \in RequiredFields[kind] :
                NonEmptyField(resume_data.d[kind].xs[i], key)

(***************************************************************************)
(* Specification of the item widgets: entries are added through the        *)
(* dialogs and removed through the Remove buttons of their widgets.        *)
(***************************************************************************)
NextItems ==
    \/ on_add_experience
    \/ on_add_project
    \/ on_add_education
    \/ on_add_skill
    \/ remove_item

SpecItems == InitSections /\ [][NextItems]_vars

SameButSection(a, b, kind) ==
    /\ \A other \in SectionKinds \ {kind} : a.d[other] = b.d[other]
    /\ \A k \in DOMAIN a.d \ SectionKinds : a.d[k] = b.d[k]

\* A step that removes through the k-th widget takes the k-th entry out of
\* its sequence and nothing else; a step that adds appends at the tail.
RemovesSelectedAppendsAtTail ==
    /\ (op' = "remove_item" /\ result'.ok) =>
          \E kind \in SectionKinds :
              \E k \in DOMAIN boxes[kind] :
                  /\ boxes[kind][k] = result'.v
                  /\ boxes'[kind] = RemoveAt(boxes[kind], k)
                  /\ resume_data.d[kind].xs[k] = result'.v
                  /\ resume_data'.d[kind].xs = RemoveAt(resume_data.d[kind].xs, k)
                  /\ Len(resume_data'.d[kind].xs) = Len(resume_data.d[kind].xs) - 1
                  /\ SameButSection(resume_data', resume_data, kind)
    /\ (op' = "remove_item" /\ resume_data' # resume_data) => result'.ok
    /\ (op' \in DOMAIN AddOpKind /\ result'.ok /\ result'.v # PyNone) =>
          LET kind == AddOpKind[op']
          IN  /\ resume_data'.d[kind].xs = Append(resume_data.d[kind].xs, result'.v)
              /\ SameButSection(resume_data', resume_data, kind)

\* C22: removing an entry removes exactly the entry whose Remove control
\* was activated: its sequence gets shorter by one and the other entries
\* keep their relative order, also when entries with identical field
\* values are in the sequence; adding an entry always appends it at the
\* tail.
C22_RemoveSelectedAppendAtTail == [][RemovesSelectedAppendsAtTail]_vars

\* C27: the item widgets of each section box correspond one-to-one and in
\* the same order to the entries of that section in resume_data: the k-th
\* widget shows the k-th stored entry, also when entries with identical
\* field values exist and one of them is removed.
C27_WidgetsMatchEntries ==
    \A kind \in SectionKinds :
        /\ Len(boxes[kind]) = Len(resume_data.d[kind].xs)
        /\ \A k \in DOMAIN boxes[kind] : boxes[kind][k] = resume_data.d[kind].xs[k]

(***************************************************************************)
(* The GTK window: saving and loading the document as JSON.                *)
(***************************************************************************)
TypeError(m) == Raise(<<"TypeError", m>>)

\* collect_form_data(): the five entries are sanitized into the document,
\* one assignment after the other.  The outcome of validate_email is only
\* logged, whatever it is, and changes nothing.
collect_form_data(data, entries) ==
    LET d1 == Put(data, "name", Sanitized(entries.name))
        d2 == Put(d1, "subtitle", Sanitized(entries.subtitle))
        contact == d2.d["contact"]
        c3 == Put(Put(Put(contact, "website", Sanitized(entries.website)),
                      "email", Sanitized(entries.email)),
                  "phone", Sanitized(entries.phone))
    IN  IF ~Has(d2, "contact") THEN [ok |-> FALSE, data |-> d2, exc |-> <<"KeyError", "contact">>]
        ELSE IF ~IsDict(contact)
        THEN [ok |-> FALSE, data |-> d2, exc |-> <<"TypeError", "contact">>]
        ELSE [ok |-> TRUE, data |-> Put(d2, "contact", c3)]

\* on_save_json: collect_form_data, then on OK json.dump to the chosen
\* file; a failure to open the file is shown as an error.  Every save
\* escapes the header entries once more, so the entries a load filled in
\* grow with each save; the first conjunct bounds that growth.
on_save_json ==
    /\ \A f \in DOMAIN form : Len(form[f]) <= MaxFieldLen
    /\ \E response \in Responses, can_write \in BOOLEAN :
          LET c == collect_form_data(resume_data, form)
          IN  /\ resume_data' = c.data
              /\ IF ~c.ok
                 THEN result' = Raise(c.exc) /\ op' = "on_save_json:failed" /\ UNCHANGED json_file
                 ELSE IF response # "OK"
                 THEN result' = Ok(PyNone) /\ op' = "on_save_json:cancel" /\ UNCHANGED json_file
                 ELSE IF ~can_write
                 THEN result' = Raise(<<"OSError", "open">>) /\ op' = "on_save_json:failed"
                      /\ UNCHANGED json_file
                 ELSE /\ json_file' = json_dumps(c.data)
                      /\ result' = Ok(c.data)
                      /\ op' = "on_save_json"
    /\ UNCHANGED <<text, boxes, form, fs>>

\* The keys on_load_json and api_load require, in the order they test them.
required_keys_short == <<"name", "subtitle", "contact", "experience", "projects", "education">>
required_keys ==
    <<"name", "subtitle", "contact", "experience", "projects", "education", "skills">>

\* key in data.  The lists and strs at the top of the files of this model
\* are empty, so that no key is in them.
KeyIn(key, data) == IF IsDict(data) THEN Has(data, key) ELSE FALSE

\* The first required key from position i on that is not in data, or "".
RECURSIVE first_missing_key(_, _)
first_missing_key(data, i) ==
    IF i > Len(required_keys) THEN ""
    ELSE IF ~KeyIn(required_keys[i], data) THEN required_keys[i]
    ELSE first_missing_key(data, i + 1)

MissingKeyValueError(k) == Raise(<<"ValueError: Invalid resume data: missing", k>>)

\* The keys add_*_item reads from an entry, in the order it reads them.
ItemKeys ==
    [experience |-> <<"title", "company", "start_date", "end_date">>,
     projects |-> <<"title", "start_date", "end_date">>,
     education |-> <<"degree", "school">>,
     skills |-> <<"category", "skills">>]

SectionOrder == <<"experience", "projects", "education", "skills">>

\* The for loops of populate_form from section k, entry i on: each entry
\* gets an item widget until an entry makes add_*_item raise.
RECURSIVE populate_items(_, _, _, _)
populate_items(data, k, i, bx) ==
    IF k > Len(SectionOrder) THEN [ok |-> TRUE, boxes |-> bx]
    ELSE LET kind == SectionOrder[k]
             section == Get(data, kind, EmptyList)
         IN  IF ~IsList(section)
             THEN (IF ~Truthy(section) /\ section.t # "none"
                   THEN populate_items(data, k + 1, 1, bx)
                   ELSE [ok |-> FALSE, boxes |-> bx, exc |-> <<"TypeError", kind>>])
             ELSE IF i > Len(section.xs) THEN populate_items(data, k + 1, 1, bx)
             ELSE LET entry == section.xs[i]
                  IN  IF ~IsDict(entry)
                      THEN [ok |-> FALSE, boxes |-> bx, exc |-> <<"TypeError", kind>>]
                      ELSE IF FirstMissing(entry, ItemKeys[kind]) # ""
                      THEN [ok |-> FALSE, boxes |-> bx,
                            exc |-> <<"KeyError", FirstMissing(entry, ItemKeys[kind])>>]
                      ELSE populate_items(data, k, i + 1,
                                          [bx EXCEPT ![kind] = Append(@, entry)])

HeaderFields == <<"name", "subtitle", "website", "email", "phone">>

\* The five set_text calls of populate_form from field i on: set_text
\* takes a str only; the contact fields are read with contact.get.
RECURSIVE populate_entries(_, _, _)
populate_entries(data, i, entries) ==
    IF i > Len(HeaderFields) THEN [ok |-> TRUE, form |-> entries]
    ELSE LET f == HeaderFields[i]
             top == f \in {"name", "subtitle"}
             contact == data.d["contact"]
             v == IF top THEN Get(data, f, EmptyStr) ELSE Get(contact, f, EmptyStr)
         IN  IF ~top /\ ~IsDict(contact)
             THEN [ok |-> FALSE, form |-> entries, exc |-> <<"AttributeError", "get">>]
             ELSE IF ~IsStr(v)
             THEN [ok |-> FALSE, form |-> entries, exc |-> <<"TypeError", f>>]
             ELSE populate_entries(data, i + 1, [entries EXCEPT ![f] = v.s])

\* populate_form(): the entries are set, every item widget is destroyed,
\* and the items of the document are added; what was done before an
\* exception stays done.
populate_form(data, entries, bx) ==
    LET e == populate_entries(data, 1, entries)
        b == populate_items(data, 1, 1, NoBoxes)
    IN  IF ~e.ok THEN [ok |-> FALSE, form |-> e.form, boxes |-> bx, exc |-> e.exc]
        ELSE IF ~b.ok THEN [ok |-> FALSE, form |-> e.form, boxes |-> b.boxes, exc |-> b.exc]
        ELSE [ok |-> TRUE, form |-> e.form, boxes |-> b.boxes]

\* on_load_json: on OK the file is parsed, the seven keys are required,
\* the parsed data becomes resume_data and the form is populated from it;
\* any exception is shown as an error.
on_load_json ==
    /\ json_file # <<>>
    /\ \E response \in Responses :
          IF response # "OK"
          THEN /\ result' = Ok(PyNone) /\ op' = "on_load_json:cancel"
               /\ UNCHANGED <<resume_data, form, boxes>>
          ELSE LET data == json_loads(json_file)
               IN  /\ op' = "on_load_json"
                   /\ IF ~data.ok
                      THEN result' = data /\ UNCHANGED <<resume_data, form, boxes>>
                      ELSE IF data.v.t = "none"
                      THEN result' = TypeError("in") /\ UNCHANGED <<resume_data, form, boxes>>
                      ELSE IF first_missing_key(data.v, 1) # ""
                      THEN /\ result' = MissingKeyValueError(first_missing_key(data.v, 1))
                           /\ UNCHANGED <<resume_data, form, boxes>>
                      ELSE LET pf == populate_form(data.v, form, boxes)
                           IN  /\ resume_data' = data.v
                               /\ form' = pf.form
                               /\ boxes' = pf.boxes
                               /\ result' = IF pf.ok THEN Ok(data.v) ELSE Raise(pf.exc)
    /\ UNCHANGED <<text, fs, json_file>>

(***************************************************************************)
(* The web application: /api/save and /api/load.                           *)
(***************************************************************************)
BadRequest(m) == Raise(<<"400", m>>)
MissingKeyBadRequest(k) == Raise(<<"400: Invalid resume data: missing", k>>)

\* api_save with the document as the request body: the response body is the
\* JSON text, which the browser stores as a file.
api_save ==
    /\ IF ~Truthy(resume_data)
       THEN result' = BadRequest("No data provided") /\ UNCHANGED json_file
       ELSE result' = Ok(resume_data) /\ json_file' = json_dumps(resume_data)
    /\ op' = "api_save"
    /\ UNCHANGED <<text, resume_data, boxes, form, fs>>

\* api_load with the file uploaded: the response holds the parsed data.
api_load ==
    /\ json_file # <<>>
    /\ LET data == json_loads(json_file)
       IN  result' = IF ~data.ok THEN BadRequest("Invalid JSON")
                     ELSE IF data.v.t = "none" THEN BadRequest("TypeError")
                     ELSE IF first_missing_key(data.v, 1) # ""
                     THEN MissingKeyBadRequest(first_missing_key(data.v, 1))
                     ELSE Ok(data.v)
    /\ op' = "api_load"
    /\ UNCHANGED <<text, resume_data, boxes, form, fs, json_file>>

(***************************************************************************)
(* Specification of saving and loading: the window starts with the empty   *)
(* document; a JSON file written elsewhere may be put in place once; the   *)
(* user edits header entries, saves and loads; the web routes save and     *)
(* load the same document and file.                                        *)
(***************************************************************************)
BaseDoc ==
    [name |-> PyStr(<<"a">>), subtitle |-> EmptyStr,
     contact |-> PyDict([website |-> EmptyStr, email |-> PyStr(<<"a">>), phone |-> EmptyStr]),
     experience |-> EmptyList, projects |-> EmptyList, education |-> EmptyList,
     skills |-> EmptyList, foo |-> PyStr(<<"a">>)]

\* The sets of top-level keys a file lacks: none, each one alone, two, all.
MissingKeySets ==
    {{}} \cup {{k} : k \in TopLevelKeys} \cup {{"name", "skills"}, TopLevelKeys}

\* Objects that lack one of these sets of keys, with and without the
\* unknown key foo.
KeySubsetDocs ==
    {PyDict([k \in (TopLevelKeys \ M) \cup X |-> BaseDoc[k]]) :
        M \in MissingKeySets, X \in {{}, {"foo"}}}

RichDoc ==
    PyDict([name |-> PyStr(<<"a", "\"", "\\", "\n">>), subtitle |-> PyStr(AmpText),
            contact |-> PyDict([website |-> PyStr(<<"a">>), email |-> EmptyStr,
                                phone |-> PyStr(<<"\\", "\\">>)]),
            experience |-> PyList(<<ExpA, ExpB>>), projects |-> PyList(<<ProjA>>),
            education |-> PyList(<<EduA>>), skills |-> PyList(<<SkillA, SkillA>>)])

\* Documents that have the seven keys but not the shape the form expects.
OddDocs ==
    { Put(RichDoc, "experience", PyList(<<ExpB, Without(ExpA, {"title"})>>)),
      Put(RichDoc, "contact", PyNone) }

ExternalFiles ==
    {json_dumps(d) : d \in KeySubsetDocs \cup {RichDoc} \cup OddDocs}
    \cup { SubSeq(json_dumps(RichDoc), 1, Len(json_dumps(RichDoc)) - 1),
           <<"[", "]">>, <<"n", "u", "l", "l">>, <<" ">> }

\* A file written elsewhere is put where the user will open it.
ExternalFile ==
    /\ json_file = <<>>
    /\ json_file' \in ExternalFiles
    /\ UNCHANGED <<text, resume_data, boxes, form, fs, result, op>>

EditableFields == {"name"}
FormTexts == {<<"\\", "\"">>, <<" ", "a">>}

\* The user types into a header entry.
EditHeader ==
    /\ \E f \in EditableFields, t \in FormTexts : form' = [form EXCEPT ![f] = t]
    /\ UNCHANGED <<text, resume_data, boxes, fs, json_file, result, op>>

InitJson ==
    /\ resume_data = create_default_data
    /\ boxes = NoBoxes
    /\ form = EmptyForm
    /\ text = PyNone
    /\ fs = <<>>
    /\ json_file = <<>>
    /\ result = Ok(<<>>)
    /\ op = "init"

NextJson ==
    \/ ExternalFile
    \/ EditHeader
    \/ on_save_json
    \/ on_load_json
    \/ api_save
    \/ api_load

SpecJson == InitJson /\ [][NextJson]_vars

\* The document has the shape of the data model: the seven keys, str
\* header fields, a contact object of strs, and lists of entries that have
\* the fields their items show.
WellFormed(data) ==
    /\ IsDict(data) /\ TopLevelKeys \subseteq DOMAIN data.d
    /\ IsStr(data.d["name"]) /\ IsStr(data.d["subtitle"])
    /\ IsDict(data.d["contact"])
    /\ \A k \in DOMAIN data.d["contact"].d : IsStr(data.d["contact"].d[k])
    /\ \A kind \in SectionKinds :
          /\ IsList(data.d[kind])
          /\ \A i \in 1..Len(data.d[kind].xs) :
                /\ IsDict(data.d[kind].xs[i])
                /\ FirstMissing(data.d[kind].xs[i], ItemKeys[kind]) = ""

Saved == op = "on_save_json" \/ (op = "api_save" /\ result.ok)

\* C4: round trip: saving a well-formed document to JSON and loading that
\* JSON yields a document equal to it field for field, every sequence in
\* the same order: the text a save writes parses back to the document, and
\* a load (GTK or web) that follows a save returns the saved document.
C4_SaveLoadRoundTrip ==
    [][ /\ Saved' => json_loads(json_file') = Ok(resume_data')
        /\ (Saved /\ op' = "on_load_json") =>
              /\ resume_data' = resume_data
              /\ WellFormed(resume_data) => result' = Ok(resume_data)
        /\ (Saved /\ op' = "api_load") => result' = Ok(resume_data) ]_vars

\* A document with entries in every section, an empty field and a
\* backslash typed into its name has been saved and loaded again.
C4_Witness ==
    /\ op = "on_load_json" /\ result.ok
    /\ json_file = json_dumps(resume_data)
    /\ resume_data.d["name"].s # <<>> /\ resume_data.d["name"].s[1] = "\\"
    /\ resume_data.d["contact"].d["email"] = EmptyStr
    /\ Len(resume_data.d["experience"].xs) = 2
    /\ Len(resume_data.d["skills"].xs) = 2

IsMissingKeyError(r) ==
    /\ ~r.ok
    /\ r.exc[1] \in {"ValueError: Invalid resume data: missing",
                     "400: Invalid resume data: missing"}

\* C5: loading a parsed JSON object is rejected with a missing-key error if
\* and only if at least one of the seven top-level keys is absent; extra or
\* unknown keys never cause rejection.
C5_RejectedIffKeyMissing ==
    (op \in {"on_load_json", "api_load"} /\ json_loads(json_file).ok
     /\ IsDict(json_loads(json_file).v)) =>
        LET data == json_loads(json_file).v
        IN  /\ IsMissingKeyError(result) <=> \E k \in TopLevelKeys : ~Has(data, k)
            /\ IsMissingKeyError(result) => ~Has(data, result.exc[2])

\* An object that has the unknown key foo and lacks only skills was
\* rejected for the missing key.
C5_Witness ==
    /\ op = "on_load_json" /\ IsMissingKeyError(result) /\ result.exc[2] = "skills"
    /\ DOMAIN json_loads(json_file).v.d = (TopLevelKeys \ {"skills"}) \cup {"foo"}

\* C6 (as stated): loading an object with the seven keys and an extra key
\* foo succeeds and ignores foo: the loaded document has exactly the seven
\* top-level keys, and foo is not part of a later save.
C6_ExtraKeyNotKept ==
    /\ (op \in {"on_load_json", "on_save_json"} /\ result.ok)
          => DOMAIN resume_data.d = TopLevelKeys
    /\ (op = "api_load" /\ result.ok) => DOMAIN result.v.d = TopLevelKeys

\* The strs stored anywhere in a value: in a dict, in a list, or the value
\* itself.
RECURSIVE StoredStrings(_)
StoredStrings(v) ==
    IF v.t = "str" THEN {v.s}
    ELSE IF v.t = "list" THEN UNION {StoredStrings(v.xs[i]) : i \in DOMAIN v.xs}
    ELSE IF v.t = "dict" THEN UNION {StoredStrings(v.d[k]) : k \in DOMAIN v.d}
    ELSE {}

\* What every result of sanitize_input satisfies: trimmed, at most
\* default_max_length characters before escaping, none of < > " ' left.
IsSanitizerOutput(s) ==
    /\ strip(s) = s
    /\ Len(s) <= default_max_length
    /\ \A i \in 1..Len(s) : s[i] \notin {"<", ">", "\"", "'"}

\* C17: in every reachable state of the GTK window's document, every stored
\* string field is sanitizer output: it has no leading or trailing
\* whitespace, is at most 10,000 characters long, and contains no
\* unescaped <, >, " or '.
C17_StoredFieldsAreSanitized ==
    \A s \in StoredStrings(resume_data) : IsSanitizerOutput(s)

\* C28: a load that reports an error leaves the document unchanged:
\* whenever on_load_json shows an error (malformed JSON, a missing key, or
\* a failure while the form is populated), resume_data afterwards equals
\* resume_data before the load; resume_data is replaced only by a load that
\* completes without error.
C28_FailedLoadKeepsDocument ==
    [][ op' \in {"on_load_json", "on_load_json:cancel"} =>
            (resume_data' # resume_data => (op' = "on_load_json" /\ result'.ok)) ]_vars

\* C29: load followed by save is stable in the GTK window: a save that
\* follows a successful load while the entries still show what the load put
\* in them (no edit in between) writes a document equal to the one loaded,
\* so the header and contact fields (name, subtitle, website, email, phone)
\* are the same after any number of load/save cycles, also when they
\* contain &, <, >, " or '.
Unedited == form = populate_entries(resume_data, 1, form).form

C29_LoadThenSaveIsStable ==
    [][ (op = "on_load_json" /\ result.ok /\ Unedited /\ op' = "on_save_json") =>
            /\ resume_data' = resume_data
            /\ json_loads(json_file') = Ok(resume_data) ]_vars

(***************************************************************************)
(* validate_email: re.match(EMAIL_PATTERN, email).  The pattern is         *)
(*   ^[a-zA-Z0-9._%+-]+@[a-zA-Z0-9.-]+\.[a-zA-Z]{2,}$                      *)
(* and $ matches at the end of the string and also just before a newline   *)
(* that ends the string.                                                   *)
(***************************************************************************)
IsLetter(c) ==
    \/ \E i \in 1..Len(UpperCase) : UpperCase[i] = c
    \/ \E i \in 1..Len(LowerCase) : LowerCase[i] = c

IsAlnum(c) == IsLetter(c) \/ IsDigit(c)

\* [a-zA-Z0-9._%+-]
LocalChar(c) == IsAlnum(c) \/ c \in {".", "_", "%", "+", "-"}

\* [a-zA-Z0-9.-]
DomainChar(c) == IsAlnum(c) \/ c \in {".", "-"}

\* The pattern up to the $: s is local @ domain . tld
MatchesEmailBody(s) ==
    \E at \in 2..Len(s), dot \in 3..Len(s) :
        /\ s[at] = "@" /\ s[dot] = "."
        /\ \A i \in 1..(at - 1) : LocalChar(s[i])
        /\ dot > at + 1
        /\ \A i \in (at + 1)..(dot - 1) : DomainChar(s[i])
        /\ Len(s) - dot >= 2
        /\ \A i \in (dot + 1)..Len(s) : IsLetter(s[i])

\* re.match(EMAIL_PATTERN, s)
MatchesEmailPattern(s) ==
    \/ MatchesEmailBody(s)
    \/ /\ s # <<>> /\ s[Len(s)] = "\n"
       /\ MatchesEmailBody(SubSeq(s, 1, Len(s) - 1))

\* validate_email(email): True, or ValueError
validate_email(email) ==
    IF ~Truthy(email) THEN Ok(TRUE)
    ELSE IF ~IsStr(email) THEN Raise(<<"TypeError", "expected string or bytes-like object">>)
    ELSE IF ~MatchesEmailPattern(email.s) THEN ValueError("Invalid email format")
    ELSE Ok(TRUE)

(***************************************************************************)
(* Specification of the validators: a text is drawn, then validate_date or *)
(* validate_email is applied to it.                                        *)
(***************************************************************************)
MonthTokens ==
    { <<>>, <<"1">>, <<"0", "1">>, <<"1", "2">>, <<"1", "3">>, <<"0", "0">>, <<"J", "a", "n">>, <<"j", "a", "n">>, <<"J", "A", "N">>, <<"J", "a", "n", "u", "a", "r", "y">>, <<"J", "A", "N", "U", "A", "R", "Y">>, <<"J", "a", "n", "u">>, <<"M", "a", "y">>, <<"S", "e", "p", "t">>, <<"2", "0", "2", "4">> }
DateSeparators == { <<>>, <<"/">>, <<" ">>, <<" ", " ">>, <<"\t">>, <<"-">> }
YearTokens == { <<"2", "0", "2", "4">>, <<"0", "0", "0", "0">>, <<"0", "0", "0", "1">>, <<"2", "4">>, <<"2", "0", "2", "4", "5">> }
IsoYears == { <<"2", "0", "2", "4">>, <<"2", "0", "2", "3">> }
IsoMonths == { <<"0", "1">>, <<"1">>, <<"0", "2">>, <<"2">>, <<"0", "4">>, <<"1", "3">> }
IsoDays == { <<"1", "5">>, <<"5">>, <<"0", "5">>, <<" ", "5">>, <<"2", "9">>, <<"3", "0">>, <<"3", "1">>, <<"3", "2">>, <<"0", "0">> }
OtherDateTexts ==
    { <<"P", "r", "e", "s", "e", "n", "t">>, <<"p", "r", "e", "s", "e", "n", "t">>, <<"P", "R", "E", "S", "E", "N", "T">>, <<"P", "r", "e", "s", "e", "n", "t", " ">>, <<"N", "o", "t", " ", "a", " ", "d", "a", "t", "e">>, <<"i", "n", "v", "a", "l", "i", "d", " ", "d", "a", "t", "e">>, <<" ", "2", "0", "2", "4">>, <<"2", "0", "2", "4", "-", "0", "1", "-", "1", "5", " ">> }

DateTexts ==
    {m \o sep \o y : m \in MonthTokens, sep \in DateSeparators, y \in YearTokens}
    \cup {y \o <<"-">> \o m \o <<"-">> \o d : y \in IsoYears, m \in IsoMonths, d \in IsoDays}
    \cup OtherDateTexts

EmailLocals == { <<>>, <<"t", "e", "s", "t">>, <<"u", "s", "e", "r", ".", "n", "a", "m", "e">>, <<"t", "e", "s", "t", ".", ".", "n", "a", "m", "e">>, <<"t", "e", "s", "t", "+", "t", "a", "g">>, <<".">>, <<"a", " ", "b">>, <<"a", "<">> }
EmailAts == { <<"@">>, <<>>, <<"@", "@">> }
EmailDomains == { <<>>, <<"e", "x", "a", "m", "p", "l", "e">>, <<"e", "x", "a", "m", "p", "l", "e", ".", "c", "o">>, <<"b", "-", "c">>, <<".">>, <<"-">>, <<"b", "_", "c">> }
EmailDots == { <<".">>, <<>> }
EmailTlds == { <<>>, <<"c">>, <<"u", "k">>, <<"c", "o", "m">>, <<"o", "r", "g">>, <<"c", "0">> }
EmailTails == { <<>>, <<"\n">>, <<" ">> }

EmailTexts ==
    {l \o a \o d \o p \o t \o e : l \in EmailLocals, a \in EmailAts, d \in EmailDomains,
                                   p \in EmailDots, t \in EmailTlds, e \in EmailTails}

ValidatorInputs == {PyNone} \cup {PyStr(s) : s \in DateTexts \cup EmailTexts}

InitValidate ==
    /\ text \in ValidatorInputs
    /\ resume_data = NoDoc
    /\ boxes = NoBoxes
    /\ form = EmptyForm
    /\ fs = <<>>
    /\ json_file = <<>>
    /\ result = Ok(<<>>)
    /\ op = "init"

ValidateDateStep ==
    /\ op = "init"
    /\ result' = validate_date(text)
    /\ op' = "validate_date"
    /\ UNCHANGED <<text, resume_data, boxes, form, fs, json_file>>

ValidateEmailStep ==
    /\ op = "init"
    /\ result' = validate_email(text)
    /\ op' = "validate_email"
    /\ UNCHANGED <<text, resume_data, boxes, form, fs, json_file>>

NextValidate ==
    \/ ValidateDateStep
    \/ ValidateEmailStep

SpecValidate == InitValidate /\ [][NextValidate]_vars

\* The five formats as the data model writes them: YYYY is four digits, MM
\* and DD two digits, Mon and Month a month name in any letter case, the
\* separators one "/", one blank or one "-", and the date a real one.
TwoDigits(s) == Len(s) = 2 /\ AllDigits(s)

IsWrittenYear(s) == Len(s) = 4 /\ AllDigits(s) /\ NumVal(s) >= 1

IsWrittenDateFormat(s) ==
    \/ IsWrittenYear(s)
    \/ /\ Len(s) = 7 /\ s[3] = "/"
       /\ TwoDigits(SubSeq(s, 1, 2)) /\ NumVal(SubSeq(s, 1, 2)) \in 1..12
       /\ IsWrittenYear(SubSeq(s, 4, 7))
    \/ \E abbr \in BOOLEAN :
          /\ Len(s) >= 6 /\ s[Len(s) - 4] = " "
          /\ MatchesMonthName(SubSeq(s, 1, Len(s) - 5), abbr)
          /\ IsWrittenYear(SubSeq(s, Len(s) - 3, Len(s)))
    \/ /\ Len(s) = 10 /\ s[5] = "-" /\ s[8] = "-"
       /\ IsWrittenYear(SubSeq(s, 1, 4))
       /\ TwoDigits(SubSeq(s, 6, 7)) /\ NumVal(SubSeq(s, 6, 7)) \in 1..12
       /\ TwoDigits(SubSeq(s, 9, 10))
       /\ NumVal(SubSeq(s, 9, 10)) \in 1..DaysIn(NumVal(SubSeq(s, 1, 4)), NumVal(SubSeq(s, 6, 7)))

\* C11 (as stated): validate_date returns True exactly for the empty string
\* or null, the literal token "Present", and the strings in one of the five
\* formats YYYY, MM/YYYY, Mon YYYY, YYYY-MM-DD, Month YYYY with a real
\* month and day; every other string fails with the invalid-date error.
C11_ValidDatesExactly ==
    op = "validate_date" =>
        /\ result.ok <=>
              \/ ~Truthy(text)
              \/ text.s = PresentText
              \/ IsWrittenDateFormat(text.s)
        /\ ~result.ok => result = Raise(<<"ValueError", "Invalid date format", text.s>>)

\* The address form as the data model writes it: the whole string is
\* local @ domain . tld, local one or more of alphanumerics and ._%+-,
\* domain one or more labels of alphanumerics and hyphens separated by
\* single dots, tld two or more letters.
IsDomainLabels(d) ==
    /\ d # <<>>
    /\ \A i \in 1..Len(d) : DomainChar(d[i])
    /\ d[1] # "." /\ d[Len(d)] # "."
    /\ \A i \in 1..(Len(d) - 1) : ~(d[i] = "." /\ d[i + 1] = ".")

IsWrittenEmail(s) ==
    \E at \in 2..Len(s), dot \in 3..Len(s) :
        /\ s[at] = "@" /\ s[dot] = "."
        /\ \A i \in 1..(at - 1) : LocalChar(s[i])
        /\ IsDomainLabels(SubSeq(s, at + 1, dot - 1))
        /\ Len(s) - dot >= 2
        /\ \A i \in (dot + 1)..Len(s) : IsLetter(s[i])

\* C12 (as stated): validate_email succeeds for the empty string and null,
\* and for a non-empty string succeeds if and only if the whole string has
\* the form local@domain.tld (local of alphanumerics and ._%+-, domain of
\* alphanumeric/hyphen labels separated by dots, tld of two or more
\* letters); otherwise it fails with the invalid-email error.
C12_ValidEmailsExactly ==
    op = "validate_email" =>
        /\ result.ok <=> (~Truthy(text) \/ IsWrittenEmail(text.s))
        /\ ~result.ok => result = ValueError("Invalid email format")

\* The shapes of malformed address the test lists.
HasNoAt(s) == \A i \in 1..Len(s) : s[i] # "@"
FirstAt(s) == CHOOSE i \in 1..Len(s) : s[i] = "@" /\ \A j \in 1..(i - 1) : s[j] # "@"
HasEmptyDomain(s) == ~HasNoAt(s) /\ FirstAt(s) = Len(s)
HasEmptyLocal(s) == ~HasNoAt(s) /\ FirstAt(s) = 1
HasDoubleDotLocal(s) ==
    /\ ~HasNoAt(s)
    /\ \E i \in 1..(FirstAt(s) - 2) : s[i] = "." /\ s[i + 1] = "."

UserNameCoUk ==
    <<"u", "s", "e", "r", ".", "n", "a", "m", "e", "@", "e", "x", "a", "m", "p", "l", "e", ".", "c", "o", ".", "u", "k">>
TestTagOrg ==
    <<"t", "e", "s", "t", "+", "t", "a", "g", "@", "e", "x", "a", "m", "p", "l", "e", ".", "o", "r", "g">>

\* C13 (as stated): validate_email raises for every address with no @
\* sign, with an empty domain after the @, with an empty local part before
\* the @, or with two consecutive dots in the local part; it returns True
\* for user.name@example.co.uk and test+tag@example.org.
C13_MalformedEmailsRejected ==
    (op = "validate_email" /\ Truthy(text)) =>
        /\ (HasNoAt(text.s) \/ HasEmptyDomain(text.s) \/ HasEmptyLocal(text.s)
            \/ HasDoubleDotLocal(text.s)) => ~result.ok
        /\ text.s \in {UserNameCoUk, TestTagOrg} => result = Ok(TRUE)

(***************************************************************************)
(* The web application: the client script of the page (resumeData is       *)
(* resume_data, the inputs of the form are form; null is None) and the     *)
(* routes /api/preview and /api/export.                                    *)
(***************************************************************************)
\* bullets ? bullets.split('\n').filter(b => b.trim()) : []
js_bullets(bullets) ==
    IF ~Truthy(bullets) THEN EmptyList
    ELSE LET lines == split_lines(bullets.s)
         IN  PyList([i \in 1..Len(SelectSeq(lines, LAMBDA b : strip(b) # <<>>)) |->
                        PyStr(SelectSeq(lines, LAMBDA b : strip(b) # <<>>)[i])])

\* resumeData[kind].push(entry)
js_push(data, kind, entry) == Put(data, kind, Append_(data.d[kind], entry))

\* location.reload(): the page is fetched again from "/", where index()
\* renders create_default_data(); the browser keeps or resets the inputs.
PageReloaded ==
    /\ resume_data' = create_default_data
    /\ form' \in {EmptyForm, form}

JsTypeError(m) == Raise(<<"TypeError", m>>)

WebTitles == {PyNone, EmptyStr, PyStr(<<"a">>)}
WebCompanies == {PyStr(<<"a">>)}
\* The answers to the two date prompts: start and end.
WebDates == {<<PyStr(Year), PyNone>>, <<PyStr(<<"x">>), PyNone>>, <<PyStr(Year), PyStr(<<"x">>)>>}
WebLocations == {PyNone}
WebBullets == {PyStr(<<"a", "\n", " ", "\n", "<">>)}
WebNotes == {PyNone}
WebSkills == {PyNone, PyStr(<<"a">>)}

\* addExperience(): the entry is pushed without any validation; the const
\* location of the function shadows window.location, so location.reload()
\* throws a TypeError after the push and the page stays as it is.
addExperience ==
    /\ TotalEntries < MaxEntries
    /\ \E title \in WebTitles, company \in WebCompanies, dates \in WebDates,
          location \in WebLocations, bullets \in WebBullets :
          IF ~Truthy(title)
          THEN /\ op' = "addExperience:return"
               /\ result' = Ok(PyNone)
               /\ UNCHANGED resume_data
          ELSE /\ resume_data' =
                     js_push(resume_data, "experience",
                        PyDict([title |-> title, company |-> company, location |-> location,
                                start_date |-> dates[1], end_date |-> dates[2],
                                bullets |-> js_bullets(bullets)]))
               /\ result' = JsTypeError("location.reload is not a function")
               /\ op' = "addExperience"
    /\ UNCHANGED <<text, boxes, form, fs, json_file>>

\* addProject(): push, then the page is reloaded.
addProject ==
    /\ TotalEntries < MaxEntries
    /\ \E title \in WebTitles, subtitle \in WebNotes, dates \in WebDates,
          bullets \in WebBullets :
          IF ~Truthy(title)
          THEN /\ op' = "addProject:return"
               /\ UNCHANGED <<resume_data, form>>
          ELSE /\ PageReloaded
               /\ op' = "addProject"
    /\ result' = Ok(PyNone)
    /\ UNCHANGED <<text, boxes, fs, json_file>>

\* addEducation(): push, then the page is reloaded.
addEducation ==
    /\ TotalEntries < MaxEntries
    /\ \E degree \in WebTitles, school \in WebCompanies, dates \in WebDates,
          notes \in WebNotes :
          IF ~Truthy(degree)
          THEN /\ op' = "addEducation:return"
               /\ UNCHANGED <<resume_data, form>>
          ELSE /\ PageReloaded
               /\ op' = "addEducation"
    /\ result' = Ok(PyNone)
    /\ UNCHANGED <<text, boxes, fs, json_file>>

\* addSkill(): push, then the page is reloaded.
addSkill ==
    /\ TotalEntries < MaxEntries
    /\ \E category \in WebTitles, skills \in WebSkills :
          IF ~Truthy(category)
          THEN /\ op' = "addSkill:return"
               /\ UNCHANGED <<resume_data, form>>
          ELSE /\ PageReloaded
               /\ op' = "addSkill"
    /\ result' = Ok(PyNone)
    /\ UNCHANGED <<text, boxes, fs, json_file>>

\* updateData(): the inputs of the form are copied into resumeData as they
\* are.
updateData(data, entries) ==
    Put(Put(Put(data, "name", PyStr(entries.name)), "subtitle", PyStr(entries.subtitle)),
        "contact",
        Put(Put(Put(data.d["contact"], "website", PyStr(entries.website)),
                "email", PyStr(entries.email)),
            "phone", PyStr(entries.phone)))

\* The first date of the entries from position i on, start_date before
\* end_date, that validate_date refuses; Ok(TRUE) when there is none.
RECURSIVE validate_dates_from(_, _)
validate_dates_from(entries, i) ==
    IF i > Len(entries) THEN Ok(TRUE)
    ELSE IF ~IsDict(entries[i]) THEN AttributeError("get")
    ELSE LET start == validate_date(Get(entries[i], "start_date", EmptyStr))
             end == validate_date(Get(entries[i], "end_date", EmptyStr))
         IN  IF ~start.ok THEN start
             ELSE IF ~end.ok THEN end
             ELSE validate_dates_from(entries, i + 1)

\* for x in data.get(kind, []): validate_date(...)
validate_section_dates(data, kind) ==
    LET entries == Get(data, kind, EmptyList)
    IN  IF ~IsList(entries) THEN Raise(<<"TypeError", kind>>)
        ELSE validate_dates_from(entries.xs, 1)

\* except ValueError as e: return show_error(str(e))
show_error_str(outcome) == Raise(<<"400">> \o Tail(outcome.exc))

\* except Exception as e: return show_error(str(e)) around a call
ShownIfRaised(outcome) == IF outcome.ok THEN outcome ELSE BadRequest(outcome.exc[1])

\* The dates validated before the e-mail address: the order api_preview
\* does not use.
api_preview_dates_first(data, files) ==
    IF ~Truthy(data) THEN BadRequest("No data provided")
    ELSE IF ~Truthy(Get(data, "name", PyNone)) THEN BadRequest("Name is required")
    ELSE IF ~IsDict(Get(data, "contact", EmptyDict)) THEN BadRequest("AttributeError")
    ELSE IF ~Truthy(Get(Get(data, "contact", EmptyDict), "email", PyNone))
    THEN BadRequest("Email is required")
    ELSE LET email == validate_email(data.d["contact"].d["email"])
             exp == validate_section_dates(data, "experience")
             proj == validate_section_dates(data, "projects")
             edu == validate_section_dates(data, "education")
         IN  IF ~exp.ok THEN show_error_str(exp)
             ELSE IF ~proj.ok THEN show_error_str(proj)
             ELSE IF ~edu.ok THEN show_error_str(edu)
             ELSE IF ~email.ok THEN show_error_str(email)
             ELSE ShownIfRaised(generate_html(data, files))

\* api_preview with data as the request body: the HTML, or a 400 response.
api_preview(data, files) ==
    IF ~Truthy(data) THEN BadRequest("No data provided")
    ELSE IF ~Truthy(Get(data, "name", PyNone)) THEN BadRequest("Name is required")
    ELSE IF ~IsDict(Get(data, "contact", EmptyDict)) THEN BadRequest("AttributeError")
    ELSE IF ~Truthy(Get(Get(data, "contact", EmptyDict), "email", PyNone))
    THEN BadRequest("Email is required")
    ELSE LET email == validate_email(data.d["contact"].d["email"])
             exp == validate_section_dates(data, "experience")
             proj == validate_section_dates(data, "projects")
             edu == validate_section_dates(data, "education")
         IN  IF ~email.ok THEN show_error_str(email)
             ELSE IF ~exp.ok THEN show_error_str(exp)
             ELSE IF ~proj.ok THEN show_error_str(proj)
             ELSE IF ~edu.ok THEN show_error_str(edu)
             ELSE ShownIfRaised(generate_html(data, files))

\* An export that also asks for a phone number: a check api_export does
\* not make.
api_export_phone_required(data, files) ==
    IF ~Truthy(data) THEN BadRequest("No data provided")
    ELSE IF ~Truthy(Get(data, "name", PyNone)) THEN BadRequest("Name is required")
    ELSE IF ~Has(data, "contact") THEN BadRequest("KeyError")
    ELSE IF ~IsDict(data.d["contact"]) THEN BadRequest("AttributeError")
    ELSE IF ~Truthy(Get(data.d["contact"], "phone", EmptyStr))
    THEN BadRequest("Phone is required")
    ELSE LET email == validate_email(Get(data.d["contact"], "email", EmptyStr))
         IN  IF ~email.ok THEN show_error_str(email)
             ELSE ShownIfRaised(generate_html(data, files))

\* api_export with data as the request body: the HTML, or a 400 response.
api_export(data, files) ==
    IF ~Truthy(data) THEN BadRequest("No data provided")
    ELSE IF ~Truthy(Get(data, "name", PyNone)) THEN BadRequest("Name is required")
    ELSE IF ~Has(data, "contact") THEN BadRequest("KeyError")
    ELSE IF ~IsDict(data.d["contact"]) THEN BadRequest("AttributeError")
    ELSE LET email == validate_email(Get(data.d["contact"], "email", EmptyStr))
         IN  IF ~email.ok THEN show_error_str(email)
             ELSE ShownIfRaised(generate_html(data, files))

\* previewResume(): updateData(), then POST /api/preview with resumeData.
previewResume ==
    /\ resume_data' = updateData(resume_data, form)
    /\ result' = api_preview(resume_data', fs)
    /\ op' = "api_preview"
    /\ UNCHANGED <<text, boxes, form, fs, json_file>>

\* exportHTML(): updateData(), then POST /api/export with resumeData.
exportHTML ==
    /\ resume_data' = updateData(resume_data, form)
    /\ result' = api_export(resume_data', fs)
    /\ op' = "api_export"
    /\ UNCHANGED <<text, boxes, form, fs, json_file>>

(***************************************************************************)
(* Specification of the web page: it is loaded with the default document   *)
(* and the template in place; the user fills in name and e-mail, adds      *)
(* entries, previews and exports.                                          *)
(***************************************************************************)
WebNames == {<<>>, <<"a">>}
WebEmails == {<<>>, <<"a">>, <<"a", "@", "b", ".", "c", "o">>}

FillForm ==
    /\ \E n \in WebNames, e \in WebEmails : form' = [form EXCEPT !.name = n, !.email = e]
    /\ form' # form
    /\ UNCHANGED <<text, resume_data, boxes, fs, json_file, result, op>>

TemplateInPlace == [i \in PathIndex |-> IF i = 1 THEN "file" ELSE "absent"]

InitWeb ==
    /\ resume_data = create_default_data
    /\ boxes = NoBoxes
    /\ form = EmptyForm
    /\ text = PyNone
    /\ fs = TemplateInPlace
    /\ json_file = <<>>
    /\ result = Ok(<<>>)
    /\ op = "init"

NextWeb ==
    \/ FillForm
    \/ addExperience
    \/ addProject
    \/ addEducation
    \/ addSkill
    \/ previewResume
    \/ exportHTML

SpecWeb == InitWeb /\ [][NextWeb]_vars

\* Some date of the last entry of the list fails validate_date.
LastEntryDateFails(entries) ==
    /\ entries # <<>>
    /\ \/ ~validate_date(entries[Len(entries)].d["start_date"]).ok
       \/ ~validate_date(entries[Len(entries)].d["end_date"]).ok

\* C14 (as stated): entry creation blocks on failed date validation: after
\* any add-entry handler, no entry with a start_date or end_date that
\* validate_date refuses has been stored: the document is what it was
\* before the attempt.
C14_InvalidDateEntryDiscarded ==
    [][ (op' \in {"addExperience", "addProject", "addEducation"}
         /\ resume_data' # resume_data)
            => \A kind \in {"experience", "projects", "education"} :
                  Len(resume_data'.d[kind].xs) > Len(resume_data.d[kind].xs)
                      => ~LastEntryDateFails(resume_data'.d[kind].xs) ]_vars

\* The document sent has a name and renders without error.
Renderable(data) == Truthy(Get(data, "name", PyNone)) /\ generate_html(data, fs).ok

\* C15 (as stated): preview and export of a stored document never block on
\* validation: for a document that has a name and that generate_html
\* renders, whatever its dates and e-mail are, api_preview and api_export
\* answer with the rendered HTML and not with an error.
C15_PreviewExportNeverBlock ==
    (op \in {"api_preview", "api_export"} /\ Renderable(resume_data))
        => result = generate_html(resume_data, fs)

(***************************************************************************)
(* Specification of repeated rendering: a caller renders documents and     *)
(* sections again and again, passing one document or another.              *)
(***************************************************************************)
RepeatDocs == WebsiteDocs \cup {RichDoc, create_default_data}

\* A renderer that keeps the page it rendered last and returns it again:
\* what generate_html does not do.
generate_html_call_memo ==
    /\ result' = IF op = "document" /\ result.ok /\ result.v # <<>>
                 THEN result ELSE generate_html(resume_data, fs)
    /\ op' = "generate_html"
    /\ UNCHANGED <<text, resume_data, boxes, form, fs, json_file>>

\* A call generate_html(data) with the document the caller holds.
generate_html_call ==
    /\ result' = generate_html(resume_data, fs)
    /\ op' = "generate_html"
    /\ UNCHANGED <<text, resume_data, boxes, form, fs, json_file>>

\* The caller takes another document for its next calls.
TakeDocument ==
    /\ resume_data' \in RepeatDocs \ {resume_data}
    /\ op' = "document"
    /\ UNCHANGED <<text, boxes, form, fs, json_file, result>>

InitRepeat ==
    /\ resume_data \in RepeatDocs
    /\ fs \in PlainFiles
    /\ text = PyNone
    /\ boxes = NoBoxes
    /\ form = EmptyForm
    /\ json_file = <<>>
    /\ result = Ok(<<>>)
    /\ op = "init"

NextRepeat ==
    \/ generate_html_call
    \/ GenerateSectionStep
    \/ TakeDocument

SpecRepeat == InitRepeat /\ [][NextRepeat]_vars

DatedEntry(start, end) ==
    PyDict([title |-> PyStr(<<"a">>), company |-> PyStr(<<"a">>), degree |-> PyStr(<<"a">>),
            school |-> PyStr(<<"a">>), start_date |-> PyStr(start), end_date |-> PyStr(end)])

ApiNameVals == {EmptyStr, PyStr(<<"a">>)}
ApiContactVals ==
    { PyNone, EmptyDict, PyDict([email |-> EmptyStr]), PyDict([email |-> PyStr(<<"a">>)]),
      PyDict([website |-> PyStr(<<"a">>), email |-> PyStr(<<"a", "@", "b", ".", "c", "o">>),
              phone |-> EmptyStr]) }
ApiExperienceVals ==
    { <<>>, <<DatedEntry(<<"x">>, <<"y">>)>>,
      <<DatedEntry(Year, <<"y">>), DatedEntry(<<"x">>, <<>>)>>,
      <<Without(DatedEntry(Year, Year), {"start_date"})>>, <<DatedEntry(Year, PresentText)>> }
ApiProjectsVals == {<<>>, <<DatedEntry(<<"p">>, Year)>>}
ApiEducationVals == {<<>>, <<DatedEntry(Year, <<"e">>)>>}

ApiBodies ==
    {PyNone, EmptyDict} \cup
    { Without(PyDict([name |-> n, subtitle |-> EmptyStr, contact |-> c,
                      experience |-> PyList(e), projects |-> PyList(p),
                      education |-> PyList(ed), skills |-> EmptyList]), K) :
        n \in ApiNameVals, c \in ApiContactVals, e \in ApiExperienceVals,
        p \in ApiProjectsVals, ed \in ApiEducationVals, K \in {{}, {"name"}, {"contact"}} }

\* POST /api/preview with the body.
PostPreview ==
    /\ op = "init"
    /\ result' = api_preview(resume_data, fs)
    /\ op' = "api_preview"
    /\ UNCHANGED <<text, resume_data, boxes, form, fs, json_file>>

\* POST /api/export with the body.
PostExport ==
    /\ op = "init"
    /\ result' = api_export(resume_data, fs)
    /\ op' = "api_export"
    /\ UNCHANGED <<text, resume_data, boxes, form, fs, json_file>>

InitApi ==
    /\ resume_data \in ApiBodies
    /\ fs = TemplateInPlace
    /\ text = PyNone
    /\ boxes = NoBoxes
    /\ form = EmptyForm
    /\ json_file = <<>>
    /\ result = Ok(<<>>)
    /\ op = "init"

NextApi ==
    \/ PostPreview
    \/ PostExport

SpecApi == InitApi /\ [][NextApi]_vars

\* The start and end dates of the entries, entry after entry.
RECURSIVE DatesInOrder(_)
DatesInOrder(entries) ==
    IF entries = <<>> THEN <<>>
    ELSE <<Get(Head(entries), "start_date", EmptyStr), Get(Head(entries), "end_date", EmptyStr)>>
         \o DatesInOrder(Tail(entries))

\* The checks of the claim in its order, for a body that is an object whose
\* contact is absent or an object: each with the answer it gives when it
\* fails, <<>> when it passes.
PreviewChecks(data) ==
    LET contact == Get(data, "contact", EmptyDict)
        email == Get(contact, "email", EmptyStr)
        dates == DatesInOrder(Get(data, "experience", EmptyList).xs)
                 \o DatesInOrder(Get(data, "projects", EmptyList).xs)
                 \o DatesInOrder(Get(data, "education", EmptyList).xs)
    IN  << IF Truthy(data) THEN <<>> ELSE <<"400", "No data provided">>,
           IF Truthy(Get(data, "name", EmptyStr)) THEN <<>> ELSE <<"400", "Name is required">>,
           IF Truthy(email) THEN <<>> ELSE <<"400", "Email is required">>,
           IF validate_email(email).ok THEN <<>> ELSE <<"400", "Invalid email format">> >>
        \o [i \in DOMAIN dates |->
               IF validate_date(dates[i]).ok THEN <<>>
               ELSE <<"400", "Invalid date format", dates[i].s>>]

\* The position of the first check that fails, 0 when all pass.
FirstFailure(checks) ==
    IF \A i \in DOMAIN checks : checks[i] = <<>> THEN 0
    ELSE CHOOSE i \in DOMAIN checks :
            checks[i] # <<>> /\ \A j \in 1..(i - 1) : checks[j] = <<>>

\* C26: api_preview applies its checks in a fixed order and reports only
\* the first failure: (1) no or empty body, (2) name missing or empty,
\* (3) contact email missing or empty, (4) email format, (5) start then end
\* date of each experience entry in sequence order, (6) of each project,
\* (7) of each education entry; a failed check gives a 400 response
\* instead of the page, and the page is rendered only when all pass.
C26_FirstFailedCheckReported ==
    op = "api_preview" =>
        IF ~Truthy(resume_data) THEN result = BadRequest("No data provided")
        ELSE IF ~IsDict(Get(resume_data, "contact", EmptyDict))
        THEN /\ ~result.ok /\ result.exc[1] = "400"
             /\ ~Truthy(Get(resume_data, "name", EmptyStr)) => result = BadRequest("Name is required")
        ELSE LET checks == PreviewChecks(resume_data)
                 first == FirstFailure(checks)
             IN  /\ first # 0 => result = Raise(checks[first])
                 /\ first = 0 => result = ShownIfRaised(generate_html(resume_data, fs))

\* A body with a name, a well-formed e-mail and refused dates in all three
\* sections was posted; its first experience entry has a refused end date
\* and its second a refused start date, and the answer quotes that end
\* date.
C26_Witness ==
    /\ op = "api_preview" /\ ~result.ok
    /\ IsDict(resume_data) /\ Has(resume_data, "name") /\ Has(resume_data, "contact")
    /\ IsDict(resume_data.d["contact"])
    /\ Len(resume_data.d["experience"].xs) = 2
    /\ resume_data.d["projects"].xs # <<>> /\ resume_data.d["education"].xs # <<>>
    /\ result = Raise(<<"400", "Invalid date format", <<"y">>>>)

\* C30: every request body for which api_preview returns rendered HTML is
\* also accepted by api_export, and api_export returns the same HTML for
\* it, the template being the same.
C30_PreviewedBodyExportsSame ==
    (op \in {"api_preview", "api_export"} /\ api_preview(resume_data, fs).ok) =>
        /\ api_export(resume_data, fs).ok
        /\ api_export(resume_data, fs) = api_preview(resume_data, fs)
        /\ result = generate_html(resume_data, fs)

\* A body with name, a well-formed e-mail and entries with accepted dates
\* was posted to /api/export and answered with the page.
C30_Witness ==
    /\ op = "api_export" /\ result.ok
    /\ api_preview(resume_data, fs).ok
    /\ resume_data.d["experience"].xs # <<>>
    /\ Len(result.v) > Len(resume_template)

====
